---------------------------- MODULE Spec2Model ----------------------------
(***************************************************************************)
(* State-machine model of the hyper-sdk-playwright scheme controllers      *)
(* (Kasada, Akamai, Incapsula static/dynamic, DataDome).                   *)
(*                                                                         *)
(* The JavaScript event loop is modelled as interleaving of handler steps: *)
(* one action per synchronous segment of a handler, a segment ending at an *)
(* `await` (or at the handler's return).  A promise is identified by the   *)
(* number of the epoch that created it (the constructor creates promise 0, *)
(* the n-th reset() creates promise n); the set of resolved promises is a  *)
(* variable. A handler that awaits a promise remembers which one it awaits.*)
(***************************************************************************)
EXTENDS Naturals, Integers, Sequences, FiniteSets, TLC

(***************************************************************************)
(* Bounds of the model.                                                    *)
(***************************************************************************)
\* At most MaxEvents external events (responses delivered, requests intercepted,
\* reset() calls) happen in one run of a controller.
MaxEvents == 4

NULL == "null"

\* JavaScript truthiness of a string-or-null value.
Truthy(x) == x # NULL /\ x # ""

\* Remove the i-th element of a sequence.
RemoveAt(s, i) == [j \in 1..(Len(s) - 1) |-> IF j < i THEN s[j] ELSE s[j + 1]]

VARIABLES
    scheme,            \* which controller class this instance is
    \* ---- Kasada ----
    kScriptCapture,    \* KasadaHandler.scriptCapture
    kUserAgent,        \* KasadaHandler.userAgent
    ipsScriptPromise,  \* identity of KasadaHandler.ipsScriptPromise
    kResolved,         \* promises of the Kasada handler resolved so far
    kResp,             \* 'response' callbacks suspended at response.body()
    kReq,              \* TL route callbacks in flight
    kDone,             \* history: the route callback that finished last
    kObs,              \* history: ips.js observations completed, per promise
    kCount,            \* history: number of external events so far
    \* ---- Akamai ----
    aScriptCapture,    \* AkamaiHandler.scriptCapture
    sessionContext,    \* AkamaiHandler.sessionContext (0 is the empty string)
    sbsdIndex,         \* AkamaiHandler.sbsdIndex
    aUserAgent,        \* AkamaiHandler.userAgent
    dynamicValuesPromise, \* identity of AkamaiHandler.dynamicValuesPromise
    aResolved,         \* promises of the Akamai handler resolved so far
    aCookies,          \* names of the cookies context.cookies() returns with a value
    aResp,             \* 'response' callbacks suspended at an await
    aReq,              \* route callbacks in flight
    aDone,             \* history: the route callback that finished last
    aHist,             \* history: SBSD mutations since the last completed capture
    aCount,            \* history: number of external events so far
    \* ---- DataDome ----
    captchaCapture,    \* DataDomeHandler.captchaCapture
    isProcessing,      \* DataDomeHandler.isProcessing
    dUserAgent,        \* DataDomeHandler.userAgent
    imagesPromise,     \* identity of DataDomeHandler.imagesPromise
    dResolved,         \* promises of the DataDome handler resolved so far
    dResp,             \* 'response' callbacks suspended at an await
    dReq,              \* route callbacks in flight
    dDone,             \* history: the captcha or interstitial page handling that ended last
    dCount,            \* history: number of external events so far
    \* ---- Incapsula ----
    scriptPathToSitekey,       \* static variant: the configured map, in insertion order
    detectedReese84Paths,      \* dynamic variant: the detected paths, in insertion order
    scriptPathToScriptUrl,     \* IncapsulaHandler.scriptPathToScriptUrl
    scriptPathToScriptContent, \* dynamic variant: IncapsulaHandler.scriptPathToScriptContent
    iScriptCapture,    \* IncapsulaHandler.scriptCapture
    iUserAgent,        \* IncapsulaHandler.userAgent
    iResp,             \* script detector callbacks suspended at response.text()
    iReq,              \* route callbacks in flight
    iDone,             \* history: the route callback that finished last
    iCount,            \* history: number of external events so far
    iSnapshot,         \* the object a getStatus() call of the Incapsula handler returned
    kErrorDone,        \* history: the Kasada error-route callback that finished last
    kHeaders,          \* history: the headers of the TL request that was mutated last
    aEpochCalls,       \* history: the context tokens passed to the sensor oracle calls made
                       \* since the last sensor script was observed (or reset() was called)
    aPixelDone,        \* history: the Akamai pixel-route callback that finished last
    utmvcPage,         \* Incapsula: this.utmvc, the utmvc route callback, and the page's
                       \* document.cookie accessor with the writes made through it
    \* ---- findMatchingScriptPath on its own ----
    fKeys,             \* the registry: prefixes in insertion order
    fUrl,              \* the request URL: its path and its query
    fRes               \* the result, once the function has been applied

kvars == <<kScriptCapture, kUserAgent, ipsScriptPromise, kResolved, kResp, kReq,
           kDone, kObs, kCount>>

avars == <<aScriptCapture, sessionContext, sbsdIndex, aUserAgent, dynamicValuesPromise,
           aResolved, aCookies, aResp, aReq, aDone, aHist, aCount>>

dvars == <<captchaCapture, isProcessing, dUserAgent, imagesPromise, dResolved,
           dResp, dReq, dDone, dCount>>

ivars == <<scriptPathToSitekey, detectedReese84Paths, scriptPathToScriptUrl,
           scriptPathToScriptContent, iScriptCapture, iUserAgent, iResp, iReq, iDone, iCount>>

fvars == <<fKeys, fUrl, fRes>>

\* What callers of the controller hold.
svars == <<iSnapshot, kErrorDone, aPixelDone, kHeaders, aEpochCalls, utmvcPage>>

vars == <<scheme, kvars, avars, dvars, ivars, fvars, svars>>

\* What the actions of one controller leave alone: the other controllers, and
\* the object a caller got from getStatus() (it is only written through the
\* arrays and maps it shares with the controller).
kOthers == <<scheme, avars, dvars, ivars, fvars, svars>>
aOthers == <<scheme, kvars, dvars, ivars, fvars, svars>>
aControllers == <<scheme, kvars, dvars, ivars, fvars, iSnapshot, kErrorDone, aPixelDone, kHeaders,
                  utmvcPage>>
dOthers == <<scheme, kvars, avars, ivars, fvars, svars>>
iControllers == <<scheme, kvars, avars, dvars, fvars, kErrorDone, aPixelDone, kHeaders, aEpochCalls,
                  utmvcPage>>
iOthers == <<iControllers, svars>>
fOthers == <<scheme, kvars, avars, dvars, ivars, svars>>

(***************************************************************************)
(* How a route callback of a fixed endpoint resolved its route.            *)
(* route.fulfill(response) answers the request locally: nothing is sent to *)
(* the network.  route.continue() without overrides sends the request as   *)
(* the page issued it.                                                     *)
(***************************************************************************)
NotRouted == [method |-> NULL, outcome |-> "none", response |-> <<>>, overrides |-> {}]

\* route.continue()
RouteContinue(method) ==
    [method |-> method, outcome |-> "continued", response |-> <<>>, overrides |-> {}]

\* route.fulfill(response)
RouteFulfill_forward(method, response) == RouteContinue(method)
RouteFulfill(method, response) ==
    [method |-> method, outcome |-> "fulfilled", response |-> <<response>>, overrides |-> {}]

(***************************************************************************)
(*                               KASADA                                    *)
(***************************************************************************)
\* The GET responses the page may deliver: two ips.js deliveries with different
\* URLs and bodies, an ips.js delivery with an empty body, and another script.
KasadaResponses ==
    { [url |-> "ips1", body |-> "X"], [url |-> "ips2", body |-> "Y"],
      [url |-> "ips1", body |-> ""],  [url |-> "other", body |-> "Z"] }
Methods == {"GET", "POST"}

\* /149e9513-...\/2d206a39-...\/ips\.js/.test(requestUrl)
ipsScriptPattern(url) == url \in {"ips1", "ips2"}

\* /149e9513-...\/2d206a39-...\/tl$/.test(requestUrl)
tlEndpointPattern(url) == url = "tl"

KasadaEmptyCapture ==
    [ipsScriptUrl |-> NULL, ipsResponseText |-> NULL, tlEndpointUrl |-> NULL]

shouldInterceptTlRequest(url, method) ==
    tlEndpointPattern(url) /\ method = "POST"

\* `await this.ipsScriptPromise` may continue: the awaited promise is resolved.
KasadaAwaitDone_none(req) == TRUE
KasadaAwaitDone(req) == req.gate \in kResolved

\* `if (!this.scriptCapture.ipsResponseText)`
KasadaMissingIps(cap) == ~Truthy(cap.ipsResponseText)

\* new KasadaPayloadInput(userAgent, ipsScriptUrl, ipsResponseText, ip, lang)
KasadaPayloadInput_swapped(cap) ==
    [ipsScriptUrl |-> cap.ipsResponseText, ipsResponseText |-> cap.ipsScriptUrl]
KasadaPayloadInput(cap) ==
    [ipsScriptUrl |-> cap.ipsScriptUrl, ipsResponseText |-> cap.ipsResponseText]

\* this.scriptCapture.ipsResponseText = buffer.toString('utf-8')
KasadaStoreBody(cap, body) == [cap EXCEPT !.ipsResponseText = body]

\* this.resolveIpsScript(): resolves the promise created last; a promise that is
\* already resolved stays as it is.
KasadaResolve_refire(resolved, p) == IF p \in resolved THEN resolved \ {p} ELSE resolved \cup {p}
KasadaResolve(resolved, p) == resolved \cup {p}

\* Headers. route.request().headers() is an object whose keys are the header
\* names in lower case: a function from names to values. result.headers is an
\* object with the names as the oracle spells them: the list of its entries in
\* the order of Object.keys.
HeaderObject(names, value) == [n \in names |-> value[n]]
NoHeaderObject == HeaderObject({}, <<>>)

\* headerName.toLowerCase(), for the names of the model
toLowerCase(name) ==
    CASE name = "X-KPSDK-CD" -> "x-kpsdk-cd"
      [] OTHER -> name

\* obj[name] : undefined (here NULL) when the object has no such key
HeaderGet(obj, name) == IF name \in DOMAIN obj THEN obj[name] ELSE NULL

\* obj[name] = value
HeaderSet(obj, name, value) ==
    [n \in DOMAIN obj \cup {name} |-> IF n = name THEN value ELSE obj[n]]

\* Object.keys(result.headers).forEach(headerName => { if (originalHeaders[
\* headerName.toLowerCase()]) modifiedHeaders[headerName.toLowerCase()] = ... }),
\* entries being the entries of result.headers not visited yet.
RECURSIVE ModifiedHeaders(_, _, _)
ModifiedHeaders(originalHeaders, modifiedHeaders, entries) ==
    IF entries = <<>> THEN modifiedHeaders
    ELSE ModifiedHeaders(originalHeaders,
                         IF Truthy(HeaderGet(originalHeaders, toLowerCase(Head(entries).name)))
                         THEN HeaderSet(modifiedHeaders, toLowerCase(Head(entries).name),
                                        Head(entries).value)
                         ELSE modifiedHeaders,
                         Tail(entries))

\* The headers of TL requests: accept always, x-kpsdk-ct absent, empty or set,
\* x-kpsdk-cd absent or set.
TlHeaders ==
    { HeaderObject({"accept"} \cup ct \cup cd,
                   [n \in {"accept", "x-kpsdk-ct", "x-kpsdk-cd"} |->
                       IF n = "accept" THEN "*/*" ELSE IF n = "x-kpsdk-ct" THEN v ELSE "cd0"]) :
        ct \in {{}, {"x-kpsdk-ct"}}, cd \in {{}, {"x-kpsdk-cd"}}, v \in {"", "ct0"} }

\* The header sets generateKasadaPayload returns: x-kpsdk-ct always, and
\* possibly X-KPSDK-CD and x-kpsdk-h.
KasadaResultHeaders ==
    { <<[name |-> "x-kpsdk-ct", value |-> "ct1"]>> \o cd \o h :
        cd \in {<<>>, <<[name |-> "X-KPSDK-CD", value |-> "cd1"]>>},
        h \in {<<>>, <<[name |-> "x-kpsdk-h", value |-> "h1"]>>} }

\* The TL request of a page that sends x-kpsdk-ct, and the oracle's answer to it.
TlHeadersOfPage ==
    HeaderObject({"accept", "x-kpsdk-ct"}, [n \in {"accept", "x-kpsdk-ct"} |->
                                                IF n = "accept" THEN "*/*" ELSE "ct0"])
ResultHeadersOfPage == <<[name |-> "x-kpsdk-ct", value |-> "ct1"]>>

KasadaNoHeaders == [original |-> NoHeaderObject, result |-> <<>>, sent |-> NoHeaderObject]

\* A route callback at its start: gate is the promise it will await, preSat
\* records whether that promise was resolved when the request was intercepted.
KasadaNewReq(method, p) ==
    [method |-> method, gate |-> p, preSat |-> p \in kResolved, pc |-> "awaitGate",
     input |-> KasadaPayloadInput(KasadaEmptyCapture)]

KasadaNoDone == [outcome |-> "none"]

\* A finished route callback: how the route was resolved and what the oracle did.
KasadaFinish(req, outcome, oracle) ==
    [method |-> req.method, gate |-> req.gate, preSat |-> req.preSat,
     input |-> req.input, outcome |-> outcome, oracle |-> oracle]

\* The Kasada handler after construction.
KasadaConstructed(userAgent) ==
    /\ kScriptCapture = KasadaEmptyCapture
    /\ kUserAgent = userAgent
    /\ ipsScriptPromise = 0
    /\ kResolved = {}
    /\ kResp = <<>>
    /\ kReq = <<>>
    /\ kDone = KasadaNoDone
    /\ kObs = [p \in 0..MaxEvents |-> <<>>]
    /\ kCount = 0
    /\ kErrorDone = NotRouted
    /\ kHeaders = KasadaNoHeaders

\* page.on('response'): a GET response is delivered; handleIpsScriptResponse runs
\* up to `await response.body()`.
KasadaResponse(r) ==
    /\ scheme = "kasada"
    /\ kCount < MaxEvents
    /\ kCount' = kCount + 1
    /\ IF ipsScriptPattern(r.url)
       THEN /\ kScriptCapture' = [kScriptCapture EXCEPT !.ipsScriptUrl = r.url]
            /\ kResp' = Append(kResp, r)
       ELSE UNCHANGED <<kScriptCapture, kResp>>
    /\ UNCHANGED kOthers /\ UNCHANGED <<kUserAgent, ipsScriptPromise, kResolved, kReq, kDone, kObs>>

\* response.body() returns: the body is stored and the current promise resolved.
KasadaBodyRead(i) ==
    /\ scheme = "kasada"
    /\ i \in 1..Len(kResp)
    /\ kScriptCapture' = KasadaStoreBody(kScriptCapture, kResp[i].body)
    /\ kResolved' = KasadaResolve(kResolved, ipsScriptPromise)
    /\ kObs' = [kObs EXCEPT ![ipsScriptPromise] = Append(@, kResp[i].body)]
    /\ kResp' = RemoveAt(kResp, i)
    /\ UNCHANGED kOthers /\ UNCHANGED <<kUserAgent, ipsScriptPromise, kReq, kDone, kCount>>

\* response.body() rejects: the error is caught and logged by the 'response' callback.
KasadaBodyFail(i) ==
    /\ scheme = "kasada"
    /\ i \in 1..Len(kResp)
    /\ kResp' = RemoveAt(kResp, i)
    /\ UNCHANGED kOthers /\ UNCHANGED <<kScriptCapture, kUserAgent, ipsScriptPromise, kResolved,
                   kReq, kDone, kObs, kCount>>

\* page.route(tlEndpointPattern): a request to the TL endpoint is intercepted.
KasadaTlRoute(method) ==
    /\ scheme = "kasada"
    /\ kCount < MaxEvents
    /\ kCount' = kCount + 1
    /\ IF shouldInterceptTlRequest("tl", method)
       THEN /\ kReq' = Append(kReq, KasadaNewReq(method, ipsScriptPromise))
            /\ UNCHANGED kDone
       ELSE /\ kDone' = KasadaFinish(KasadaNewReq(method, ipsScriptPromise), "continued", "none")
            /\ UNCHANGED kReq
    /\ UNCHANGED kOthers /\ UNCHANGED <<kScriptCapture, kUserAgent, ipsScriptPromise, kResolved, kResp, kObs>>

\* The oracle call of handleTlRequest, with the capture as it is at that moment.
KasadaCallOracle(i) ==
    /\ kReq' = [kReq EXCEPT ![i].pc = "awaitOracle",
                            ![i].input = KasadaPayloadInput(kScriptCapture)]
    /\ UNCHANGED kDone

\* handleTlRequest continues after `await this.ipsScriptPromise`.
KasadaTlAfterGate(i) ==
    /\ scheme = "kasada"
    /\ i \in 1..Len(kReq)
    /\ kReq[i].pc = "awaitGate"
    /\ KasadaAwaitDone(kReq[i])
    /\ IF KasadaMissingIps(kScriptCapture)
       THEN /\ kDone' = KasadaFinish(kReq[i], "continued", "none")
            /\ kReq' = RemoveAt(kReq, i)
       ELSE IF kUserAgent = ""
            THEN /\ kReq' = [kReq EXCEPT ![i].pc = "awaitUA"]
                 /\ UNCHANGED kDone
            ELSE KasadaCallOracle(i)
    /\ UNCHANGED kOthers /\ UNCHANGED <<kScriptCapture, kUserAgent, ipsScriptPromise, kResolved,
                   kResp, kObs, kCount>>

\* page.evaluate(() => navigator.userAgent) returns.
KasadaTlAfterUA(i) ==
    /\ scheme = "kasada"
    /\ i \in 1..Len(kReq)
    /\ kReq[i].pc = "awaitUA"
    /\ kUserAgent' = "UA"
    /\ KasadaCallOracle(i)
    /\ UNCHANGED kOthers /\ UNCHANGED <<kScriptCapture, ipsScriptPromise, kResolved, kResp, kObs, kCount>>

\* generateKasadaPayload resolves with the headers resultHeaders, for a request
\* whose headers are originalHeaders: headers and body are replaced.
KasadaTlMutate(i, originalHeaders, resultHeaders) ==
    /\ scheme = "kasada"
    /\ i \in 1..Len(kReq)
    /\ kReq[i].pc = "awaitOracle"
    /\ kDone' = KasadaFinish(kReq[i], "mutated", "ok")
    /\ kHeaders' = [original |-> originalHeaders, result |-> resultHeaders,
                    sent |-> ModifiedHeaders(originalHeaders, originalHeaders, resultHeaders)]
    /\ kReq' = RemoveAt(kReq, i)
    /\ UNCHANGED <<scheme, avars, dvars, ivars, fvars, iSnapshot, kErrorDone, aPixelDone, aEpochCalls,
                   utmvcPage>>
    /\ UNCHANGED <<kScriptCapture, kUserAgent, ipsScriptPromise, kResolved,
                   kResp, kObs, kCount>>

\* The same for the TL request of a page that sends x-kpsdk-ct.
KasadaTlOracleOk(i) == KasadaTlMutate(i, TlHeadersOfPage, ResultHeadersOfPage)

\* generateKasadaPayload rejects: the route callback catches and continues.
KasadaTlOracleFail(i) ==
    /\ scheme = "kasada"
    /\ i \in 1..Len(kReq)
    /\ kReq[i].pc = "awaitOracle"
    /\ kDone' = KasadaFinish(kReq[i], "continued", "failed")
    /\ kReq' = RemoveAt(kReq, i)
    /\ UNCHANGED kOthers /\ UNCHANGED <<kScriptCapture, kUserAgent, ipsScriptPromise, kResolved,
                   kResp, kObs, kCount>>

\* KasadaHandler.reset()
KasadaReset ==
    /\ scheme = "kasada"
    /\ kCount < MaxEvents
    /\ kCount' = kCount + 1
    /\ kScriptCapture' = KasadaEmptyCapture
    /\ ipsScriptPromise' = ipsScriptPromise + 1
    /\ UNCHANGED kOthers /\ UNCHANGED <<kUserAgent, kResolved, kResp, kReq, kDone, kObs>>

\* page.route("https://reporting.cdndex.io/error"): a request to the error
\* reporting endpoint is intercepted. The callback reads no field of the handler.
KasadaErrorRoute(method) ==
    /\ scheme = "kasada"
    /\ kCount < MaxEvents
    /\ kCount' = kCount + 1
    /\ kErrorDone' = IF method = "POST"
                     THEN RouteFulfill(method, [status |-> 200,
                                                contentType |-> "application/json",
                                                body |-> "{\"\":\"\"}"])
                     ELSE RouteContinue(method)
    /\ UNCHANGED <<scheme, avars, dvars, ivars, fvars, iSnapshot, aPixelDone, kHeaders, aEpochCalls,
                   utmvcPage>>
    /\ UNCHANGED <<kScriptCapture, kUserAgent, ipsScriptPromise, kResolved, kResp, kReq,
                   kDone, kObs>>

NextKasada ==
    \/ \E r \in KasadaResponses : KasadaResponse(r)
    \/ \E i \in 1..MaxEvents : KasadaBodyRead(i)
    \/ \E i \in 1..MaxEvents : KasadaBodyFail(i)
    \/ \E m \in Methods : KasadaTlRoute(m)
    \/ \E i \in 1..MaxEvents : KasadaTlAfterGate(i)
    \/ \E i \in 1..MaxEvents : KasadaTlAfterUA(i)
    \/ \E i \in 1..MaxEvents : KasadaTlOracleOk(i)
    \/ \E i \in 1..MaxEvents : KasadaTlOracleFail(i)
    \/ KasadaReset

(***************************************************************************)
(*                               AKAMAI                                    *)
(*                                                                         *)
(* A URL is its path, the names of its query parameters in order, and the  *)
(* value of the parameter `v` (NULL when there is none).  The parameter    *)
(* `v` carries a UUID; the parameter `V` (upper case) carries 36 hex       *)
(* characters: URLSearchParams is case sensitive, the route patterns (/i)  *)
(* are not.                                                                *)
(***************************************************************************)
AkUrl(path, q, v) == [path |-> path, q |-> q, v |-> v]
NullUrl == AkUrl(NULL, <<>>, NULL)

HasParam(url, name) == \E k \in 1..Len(url.q) : url.q[k] = name

\* url.searchParams.delete('v'); url.toString()
StripV(url) == AkUrl(url.path, SelectSeq(url.q, LAMBDA n : n # "v"), NULL)

\* /^https?:\/\/[^\/]+\/[a-zA-Z\d\/\-_]+$/i : no query, no dot in the path
sensorScriptRegex(url) == url.q = <<>> /\ url.path \in {"/s1", "/s2"}

\* /\/akam\/\d+\/pixel_[a-f\d]+$/i : the URL ends with the pixel path
PixelUrl == AkUrl("/akam/13/pixel_20d83a45", <<>>, NULL)
pixelEndpointRegex(url) == url.q = <<>> /\ url.path = PixelUrl.path

\* /^https?:\/\/[^\/]+\/[a-zA-Z\d\/\-_\.]+\?v=[a-f\d\-]{36}/i : the query starts
\* with v= (in either case) and 36 characters of a UUID
sbsdScriptRegex(url) == Len(url.q) >= 1 /\ url.q[1] \in {"v", "V"}

S1 == AkUrl("/s1", <<>>, NULL)
S2 == AkUrl("/s2", <<>>, NULL)
SbsdUrl(q, v) == AkUrl("/p.js", q, v)

\* GET responses: ttl says whether the header time-to-live-seconds is present,
\* dv is what parseV3DynamicValues returns for the body.
SensorResponses ==
    { [url |-> S1, ttl |-> TRUE, dv |-> "dv1", body |-> "js1"],
      [url |-> S2, ttl |-> TRUE, dv |-> "dv2", body |-> "js2"],
      [url |-> S1, ttl |-> TRUE, dv |-> "", body |-> "js3"] }
SbsdResponses ==
    { [url |-> SbsdUrl(<<"V", "v">>, "u1"), ttl |-> FALSE, dv |-> NULL, body |-> "sb1"],
      [url |-> SbsdUrl(<<"V", "t", "v">>, "u2"), ttl |-> FALSE, dv |-> NULL, body |-> "sb2"],
      [url |-> SbsdUrl(<<"v">>, "u3"), ttl |-> FALSE, dv |-> NULL, body |-> "sb3"] }
SensorRequests ==
    { [url |-> S1, method |-> "POST"], [url |-> S2, method |-> "POST"],
      [url |-> S1, method |-> "GET"] }
SbsdRequests ==
    { [url |-> SbsdUrl(<<"V">>, NULL), method |-> "POST"],
      [url |-> SbsdUrl(<<"V", "t">>, NULL), method |-> "POST"],
      [url |-> SbsdUrl(<<>>, NULL), method |-> "POST"],
      [url |-> SbsdUrl(<<"V">>, NULL), method |-> "GET"] }

AkamaiEmptyCapture ==
    [scriptUrl |-> NullUrl, dynamicValues |-> NULL, sbsdScriptUrl |-> NullUrl,
     sbsdResponseText |-> NULL, sbsdUuid |-> NULL]

shouldInterceptSensorRequest(cap, url, method) ==
    cap.scriptUrl # NullUrl /\ url = cap.scriptUrl /\ method = "POST"

shouldInterceptSbsdRequest(cap, url, method) ==
    cap.sbsdScriptUrl # NullUrl /\ url = cap.sbsdScriptUrl /\ method = "POST"

\* `await this.dynamicValuesPromise` may continue.
AkamaiAwaitDone_none(req) == TRUE
AkamaiAwaitDone(req) == req.gate \in aResolved

\* `!abck || !bmsz || !this.scriptCapture.dynamicValues`
SensorMissing(cap, cookies) ==
    \/ "_abck" \notin cookies
    \/ "bm_sz" \notin cookies
    \/ ~Truthy(cap.dynamicValues)

\* `!bmso || !this.scriptCapture.sbsdResponseText || !this.scriptCapture.sbsdUuid`
SbsdMissing(cap, cookies) ==
    \/ ("bm_so" \notin cookies /\ "sbsd_o" \notin cookies)
    \/ ~Truthy(cap.sbsdResponseText)
    \/ ~Truthy(cap.sbsdUuid)

\* const indexToUse = hasTimeParameter ? 0 : this.sbsdIndex
IndexToUse(url, index) == IF HasParam(url, "t") THEN 0 ELSE index

\* this.sbsdIndex++
SbsdIndexAfter_same(index) == index
SbsdIndexAfter(index) == index + 1

AkamaiNoInput == [ctx |-> 0, dv |-> NULL, index |-> 0, uuid |-> NULL, body |-> NULL]

\* new SensorInput(abck, bmsz, "3", url, userAgent, ip, lang, sessionContext, undefined, dynamicValues)
SensorInput(cap, ctx) == [AkamaiNoInput EXCEPT !.ctx = ctx, !.dv = cap.dynamicValues]

\* new SbsdInput(indexToUse, sbsdUuid, bmso, url, userAgent, sbsdResponseText, ip, lang)
SbsdInput(cap, url, index) ==
    [AkamaiNoInput EXCEPT !.index = IndexToUse(url, index), !.uuid = cap.sbsdUuid,
                          !.body = cap.sbsdResponseText]

AkamaiNewReq(kind, req, pc) ==
    [kind |-> kind, url |-> req.url, method |-> req.method, gate |-> dynamicValuesPromise,
     preSat |-> dynamicValuesPromise \in aResolved, pc |-> pc, input |-> AkamaiNoInput,
     expect |-> 0, fresh |-> FALSE,
     atRoute |-> [sessionContext |-> sessionContext, sbsdIndex |-> sbsdIndex]]

AkamaiNoDone == [outcome |-> "none"]

AkamaiFinish(req, outcome, oracle) ==
    [kind |-> req.kind, url |-> req.url, method |-> req.method, gate |-> req.gate,
     preSat |-> req.preSat, input |-> req.input, expect |-> req.expect,
     fresh |-> req.fresh, atRoute |-> req.atRoute, outcome |-> outcome, oracle |-> oracle]

SbsdInFlight == \E i \in 1..Len(aReq) : aReq[i].kind = "sbsd"

\* The Akamai handler after construction.
AkamaiConstructed(userAgent, cookies) ==
    /\ aScriptCapture = AkamaiEmptyCapture
    /\ sessionContext = 0
    /\ sbsdIndex = 0
    /\ aUserAgent = userAgent
    /\ dynamicValuesPromise = 0
    /\ aResolved = {}
    /\ aCookies = cookies
    /\ aResp = <<>>
    /\ aReq = <<>>
    /\ aDone = AkamaiNoDone
    /\ aHist = [done |-> 0, fresh |-> FALSE, since |-> 0]
    /\ aCount = 0
    /\ aPixelDone = NotRouted
    /\ aEpochCalls = <<>>

\* handleSbsdScriptResponse up to `await response.body()`, for the callback r of a
\* GET response; rest is the list of the other suspended callbacks.
SbsdScriptSync(r, rest) ==
    IF HasParam(r.url, "v")
    THEN /\ aScriptCapture' = [aScriptCapture EXCEPT !.sbsdScriptUrl = StripV(r.url),
                                                      !.sbsdUuid = r.url.v]
         /\ aResp' = Append(rest, [r |-> r, pc |-> "sbsdBody"])
         /\ aHist' = [aHist EXCEPT !.fresh = FALSE,
                                   !.since = IF r.url.v = aScriptCapture.sbsdUuid THEN @ ELSE 0]
    ELSE /\ aResp' = rest
         /\ UNCHANGED <<aScriptCapture, aHist>>

\* page.on('response'): a GET response is delivered.  With the header
\* time-to-live-seconds, handleSensorScriptResponse runs up to its first await;
\* otherwise handleSbsdScriptResponse starts at once.
AkamaiResponse(r) ==
    /\ scheme = "akamai"
    /\ aCount < MaxEvents
    /\ aCount' = aCount + 1
    /\ IF r.ttl
       THEN /\ aScriptCapture' = [aScriptCapture EXCEPT !.scriptUrl = r.url]
            /\ sessionContext' = 0
            /\ aEpochCalls' = <<>>
            /\ aResp' = Append(aResp, [r |-> r, pc |-> "sensorBody"])
            /\ UNCHANGED aHist
       ELSE /\ SbsdScriptSync(r, aResp)
            /\ UNCHANGED <<sessionContext, aEpochCalls>>
    /\ UNCHANGED aControllers
    /\ UNCHANGED <<sbsdIndex, aUserAgent, dynamicValuesPromise, aResolved, aCookies, aReq, aDone>>

\* response.body() and parseV3DynamicValues return: the dynamic values are stored
\* and the current promise is resolved; handleSbsdScriptResponse follows.
AkamaiSensorParsed(i) ==
    /\ scheme = "akamai"
    /\ i \in 1..Len(aResp)
    /\ aResp[i].pc = "sensorBody"
    /\ aResolved' = aResolved \cup {dynamicValuesPromise}
    /\ IF HasParam(aResp[i].r.url, "v")
       THEN /\ aScriptCapture' = [aScriptCapture EXCEPT
                                     !.dynamicValues = aResp[i].r.dv,
                                     !.sbsdScriptUrl = StripV(aResp[i].r.url),
                                     !.sbsdUuid = aResp[i].r.url.v]
            /\ aResp' = Append(RemoveAt(aResp, i), [r |-> aResp[i].r, pc |-> "sbsdBody"])
            /\ aHist' = [aHist EXCEPT !.fresh = FALSE,
                                      !.since = IF aResp[i].r.url.v = aScriptCapture.sbsdUuid
                                                THEN @ ELSE 0]
       ELSE /\ aScriptCapture' = [aScriptCapture EXCEPT !.dynamicValues = aResp[i].r.dv]
            /\ aResp' = RemoveAt(aResp, i)
            /\ UNCHANGED aHist
    /\ UNCHANGED aOthers
    /\ UNCHANGED <<sessionContext, sbsdIndex, aUserAgent, dynamicValuesPromise, aCookies,
                   aReq, aDone, aCount>>

\* response.body() or the oracle's parse rejects, in either handler: the
\* 'response' callback catches and logs.
AkamaiResponseFail(i) ==
    /\ scheme = "akamai"
    /\ i \in 1..Len(aResp)
    /\ aResp' = RemoveAt(aResp, i)
    /\ UNCHANGED aOthers
    /\ UNCHANGED <<aScriptCapture, sessionContext, sbsdIndex, aUserAgent, dynamicValuesPromise,
                   aResolved, aCookies, aReq, aDone, aHist, aCount>>

\* response.body() returns in handleSbsdScriptResponse.
AkamaiSbsdBodyRead(i) ==
    /\ scheme = "akamai"
    /\ i \in 1..Len(aResp)
    /\ aResp[i].pc = "sbsdBody"
    /\ aScriptCapture' = [aScriptCapture EXCEPT !.sbsdResponseText = aResp[i].r.body]
    /\ sbsdIndex' = 0
    /\ aResp' = RemoveAt(aResp, i)
    /\ aHist' = [done |-> 0,
                 since |-> aHist.since,
                 fresh |-> /\ ~SbsdInFlight
                           /\ Len(aResp) = 1
                           /\ aScriptCapture.sbsdScriptUrl = StripV(aResp[i].r.url)
                           /\ aScriptCapture.sbsdUuid = aResp[i].r.url.v]
    /\ UNCHANGED aOthers
    /\ UNCHANGED <<sessionContext, aUserAgent, dynamicValuesPromise, aResolved, aCookies,
                   aReq, aDone, aCount>>

\* The route callbacks of setupRequestInterceptor for a request: the sensor
\* pattern and the SBSD pattern; a URL neither matches is not routed at all.
AkamaiRoute(req) ==
    /\ scheme = "akamai"
    /\ aCount < MaxEvents
    /\ aCount' = aCount + 1
    /\ IF sensorScriptRegex(req.url) /\ shouldInterceptSensorRequest(aScriptCapture, req.url, req.method)
       THEN /\ aReq' = Append(aReq, AkamaiNewReq("sensor", req, "awaitGate"))
            /\ UNCHANGED <<aDone, aHist>>
       ELSE IF sbsdScriptRegex(req.url) /\ shouldInterceptSbsdRequest(aScriptCapture, req.url, req.method)
       THEN /\ aReq' = Append(aReq, AkamaiNewReq("sbsd", req, "sbsdCookies"))
            /\ aHist' = [aHist EXCEPT !.fresh = @ /\ ~SbsdInFlight]
            /\ UNCHANGED aDone
       ELSE /\ aDone' = AkamaiFinish(AkamaiNewReq("none", req, "done"), "continued", "none")
            /\ UNCHANGED <<aReq, aHist>>
    /\ UNCHANGED aOthers
    /\ UNCHANGED <<aScriptCapture, sessionContext, sbsdIndex, aUserAgent, dynamicValuesPromise,
                   aResolved, aCookies, aResp>>

\* The oracle call of the route callback i, with the state as it is at that moment.
AkamaiCallOracle(i) ==
    /\ aReq' = [aReq EXCEPT
                  ![i].pc = "awaitOracle",
                  ![i].input = IF aReq[i].kind = "sensor"
                               THEN SensorInput(aScriptCapture, sessionContext)
                               ELSE SbsdInput(aScriptCapture, aReq[i].url, sbsdIndex),
                  ![i].expect = aHist.done,
                  ![i].fresh = aHist.fresh]
    /\ aEpochCalls' = IF aReq[i].kind = "sensor"
                      THEN Append(aEpochCalls, sessionContext)
                      ELSE aEpochCalls
    /\ aHist' = IF aReq[i].kind = "sbsd" THEN [aHist EXCEPT !.since = @ + 1] ELSE aHist
    /\ UNCHANGED aDone

\* handleSensorRequest continues after `await this.dynamicValuesPromise` and
\* calls context.cookies().
AkamaiSensorAfterGate(i) ==
    /\ scheme = "akamai"
    /\ i \in 1..Len(aReq)
    /\ aReq[i].pc = "awaitGate"
    /\ AkamaiAwaitDone(aReq[i])
    /\ aReq' = [aReq EXCEPT ![i].pc = "sensorCookies"]
    /\ UNCHANGED aOthers
    /\ UNCHANGED <<aScriptCapture, sessionContext, sbsdIndex, aUserAgent, dynamicValuesPromise,
                   aResolved, aCookies, aResp, aDone, aHist, aCount>>

\* handleSensorRequest continues after `await context.cookies()`.
AkamaiSensorAfterCookies(i) ==
    /\ scheme = "akamai"
    /\ i \in 1..Len(aReq)
    /\ aReq[i].pc = "sensorCookies"
    /\ IF SensorMissing(aScriptCapture, aCookies)
       THEN /\ aDone' = AkamaiFinish(aReq[i], "continued", "none")
            /\ aReq' = RemoveAt(aReq, i)
            /\ UNCHANGED <<aEpochCalls, aHist>>
       ELSE IF aUserAgent = ""
            THEN /\ aReq' = [aReq EXCEPT ![i].pc = "awaitUA"]
                 /\ UNCHANGED <<aDone, aEpochCalls, aHist>>
            ELSE AkamaiCallOracle(i)
    /\ UNCHANGED aControllers
    /\ UNCHANGED <<aScriptCapture, sessionContext, sbsdIndex, aUserAgent, dynamicValuesPromise,
                   aResolved, aCookies, aResp, aCount>>

\* handleSbsdRequest continues after `await context.cookies()`.
AkamaiSbsdAfterCookies(i) ==
    /\ scheme = "akamai"
    /\ i \in 1..Len(aReq)
    /\ aReq[i].pc = "sbsdCookies"
    /\ IF SbsdMissing(aScriptCapture, aCookies)
       THEN /\ aDone' = AkamaiFinish(aReq[i], "continued", "none")
            /\ aReq' = RemoveAt(aReq, i)
            /\ UNCHANGED <<aEpochCalls, aHist>>
       ELSE IF aUserAgent = ""
            THEN /\ aReq' = [aReq EXCEPT ![i].pc = "awaitUA"]
                 /\ UNCHANGED <<aDone, aEpochCalls, aHist>>
            ELSE AkamaiCallOracle(i)
    /\ UNCHANGED aControllers
    /\ UNCHANGED <<aScriptCapture, sessionContext, sbsdIndex, aUserAgent, dynamicValuesPromise,
                   aResolved, aCookies, aResp, aCount>>

\* page.evaluate(() => navigator.userAgent) returns, in either handler.
AkamaiAfterUA(i) ==
    /\ scheme = "akamai"
    /\ i \in 1..Len(aReq)
    /\ aReq[i].pc = "awaitUA"
    /\ aUserAgent' = "UA"
    /\ AkamaiCallOracle(i)
    /\ UNCHANGED aControllers
    /\ UNCHANGED <<aScriptCapture, sessionContext, sbsdIndex, dynamicValuesPromise,
                   aResolved, aCookies, aResp, aCount>>

\* generateSensorData resolves: the context token is stored, the body replaced.
\* The token the oracle returns for the input token n is n + 1.
AkamaiSensorOracleOk(i) ==
    /\ scheme = "akamai"
    /\ i \in 1..Len(aReq)
    /\ aReq[i].pc = "awaitOracle" /\ aReq[i].kind = "sensor"
    /\ sessionContext' = aReq[i].input.ctx + 1
    /\ aDone' = AkamaiFinish(aReq[i], "mutated", "ok")
    /\ aReq' = RemoveAt(aReq, i)
    /\ UNCHANGED aOthers
    /\ UNCHANGED <<aScriptCapture, sbsdIndex, aUserAgent, dynamicValuesPromise,
                   aResolved, aCookies, aResp, aHist, aCount>>

\* generateSbsdPayload resolves: the index is incremented, the body replaced.
AkamaiSbsdOracleOk(i) ==
    /\ scheme = "akamai"
    /\ i \in 1..Len(aReq)
    /\ aReq[i].pc = "awaitOracle" /\ aReq[i].kind = "sbsd"
    /\ sbsdIndex' = SbsdIndexAfter(sbsdIndex)
    /\ aHist' = [aHist EXCEPT !.done = IF HasParam(aReq[i].url, "t") THEN @ ELSE @ + 1]
    /\ aDone' = AkamaiFinish(aReq[i], "mutated", "ok")
    /\ aReq' = RemoveAt(aReq, i)
    /\ UNCHANGED aOthers
    /\ UNCHANGED <<aScriptCapture, sessionContext, aUserAgent, dynamicValuesPromise,
                   aResolved, aCookies, aResp, aCount>>

\* The oracle call rejects, in either handler: the route callback catches and
\* continues the request as it was.
AkamaiOracleFail_counts(i) ==
    /\ scheme = "akamai"
    /\ i \in 1..Len(aReq)
    /\ aReq[i].pc = "awaitOracle"
    /\ aDone' = AkamaiFinish(aReq[i], "continued", "failed")
    /\ aReq' = RemoveAt(aReq, i)
    /\ sbsdIndex' = IF aReq[i].kind = "sbsd" THEN sbsdIndex + 1 ELSE sbsdIndex
    /\ UNCHANGED aOthers
    /\ UNCHANGED <<aScriptCapture, sessionContext, aUserAgent, dynamicValuesPromise,
                   aResolved, aCookies, aResp, aHist, aCount>>

AkamaiOracleFail(i) ==
    /\ scheme = "akamai"
    /\ i \in 1..Len(aReq)
    /\ aReq[i].pc = "awaitOracle"
    /\ aDone' = AkamaiFinish(aReq[i], "continued", "failed")
    /\ aReq' = RemoveAt(aReq, i)
    /\ UNCHANGED aOthers
    /\ UNCHANGED <<aScriptCapture, sessionContext, sbsdIndex, aUserAgent, dynamicValuesPromise,
                   aResolved, aCookies, aResp, aHist, aCount>>

\* page.route(pixelEndpointRegex): a request to a pixel endpoint is intercepted.
\* The pixel route is registered last, so its callback is the one that runs for
\* a URL the sensor pattern matches as well. It reads no field of the handler.
AkamaiPixelRoute(req) ==
    /\ scheme = "akamai"
    /\ pixelEndpointRegex(req.url)
    /\ aCount < MaxEvents
    /\ aCount' = aCount + 1
    /\ aPixelDone' = IF req.method = "POST"
                     THEN RouteFulfill(req.method, [status |-> 200,
                                                    contentType |-> "text/html",
                                                    body |-> ""])
                     ELSE RouteContinue(req.method)
    /\ UNCHANGED <<scheme, kvars, dvars, ivars, fvars, iSnapshot, kErrorDone, kHeaders, aEpochCalls,
                   utmvcPage>>
    /\ UNCHANGED <<aScriptCapture, sessionContext, sbsdIndex, aUserAgent, dynamicValuesPromise,
                   aResolved, aCookies, aResp, aReq, aDone, aHist>>

AkamaiReset_keepIndex ==
    /\ scheme = "akamai"
    /\ aCount < MaxEvents
    /\ aCount' = aCount + 1
    /\ aScriptCapture' = AkamaiEmptyCapture
    /\ sessionContext' = 0
    /\ aEpochCalls' = <<>>
    /\ dynamicValuesPromise' = dynamicValuesPromise + 1
    /\ aHist' = [done |-> 0, fresh |-> FALSE, since |-> 0]
    /\ UNCHANGED aControllers
    /\ UNCHANGED <<sbsdIndex, aUserAgent, aResolved, aCookies, aResp, aReq, aDone>>

\* AkamaiHandler.reset()
AkamaiReset ==
    /\ scheme = "akamai"
    /\ aCount < MaxEvents
    /\ aCount' = aCount + 1
    /\ aScriptCapture' = AkamaiEmptyCapture
    /\ sessionContext' = 0
    /\ aEpochCalls' = <<>>
    /\ sbsdIndex' = 0
    /\ dynamicValuesPromise' = dynamicValuesPromise + 1
    /\ aHist' = [done |-> 0, fresh |-> FALSE, since |-> 0]
    /\ UNCHANGED aControllers
    /\ UNCHANGED <<aUserAgent, aResolved, aCookies, aResp, aReq, aDone>>

NextAkamaiSensor ==
    \/ \E r \in SensorResponses : AkamaiResponse(r)
    \/ \E i \in 1..MaxEvents : AkamaiSensorParsed(i)
    \/ \E i \in 1..MaxEvents : AkamaiResponseFail(i)
    \/ \E q \in SensorRequests : AkamaiRoute(q)
    \/ \E i \in 1..MaxEvents : AkamaiSensorAfterGate(i)
    \/ \E i \in 1..MaxEvents : AkamaiSensorAfterCookies(i)
    \/ \E i \in 1..MaxEvents : AkamaiAfterUA(i)
    \/ \E i \in 1..MaxEvents : AkamaiSensorOracleOk(i)
    \/ \E i \in 1..MaxEvents : AkamaiOracleFail(i)
    \/ AkamaiReset

NextAkamaiSbsd ==
    \/ \E r \in SbsdResponses : AkamaiResponse(r)
    \/ \E i \in 1..MaxEvents : AkamaiSbsdBodyRead(i)
    \/ \E i \in 1..MaxEvents : AkamaiResponseFail(i)
    \/ \E q \in SbsdRequests : AkamaiRoute(q)
    \/ \E i \in 1..MaxEvents : AkamaiSbsdAfterCookies(i)
    \/ \E i \in 1..MaxEvents : AkamaiAfterUA(i)
    \/ \E i \in 1..MaxEvents : AkamaiSbsdOracleOk(i)
    \/ \E i \in 1..MaxEvents : AkamaiOracleFail(i)
    \/ AkamaiReset

(***************************************************************************)
(*                              DATADOME                                   *)
(***************************************************************************)
\* Responses seen by context.on('response'): kind is which of isPuzzleImageRequest,
\* isPieceImageRequest, isCaptchaPageRequest, isInterstitialPageRequest holds for
\* the URL; ok is response.ok(); body is the body (base64 for images).
DataDomeResponses ==
    { [kind |-> "puzzle", url |-> "pz1", ok |-> TRUE, body |-> "PZ"],
      [kind |-> "puzzle", url |-> "pz2", ok |-> FALSE, body |-> "PZ2"],
      [kind |-> "piece", url |-> "pc1", ok |-> TRUE, body |-> "PC"],
      [kind |-> "piece", url |-> "pc2", ok |-> TRUE, body |-> ""],
      [kind |-> "captcha", url |-> "cp1", ok |-> TRUE, body |-> "html"],
      [kind |-> "interstitial", url |-> "in1", ok |-> TRUE, body |-> "itext"] }

DataDomeEmptyCapture ==
    [puzzleImageUrl |-> NULL, pieceImageUrl |-> NULL, puzzleImageBase64 |-> NULL,
     pieceImageBase64 |-> NULL, captchaPageUrl |-> NULL, deviceCheckLink |-> NULL,
     interstitialPageUrl |-> NULL, interstitialPageText |-> NULL]

\* checkIfImagesReady: the promises resolved after the call.
checkIfImagesReady_either(cap, resolved, p) ==
    IF Truthy(cap.puzzleImageBase64) \/ Truthy(cap.pieceImageBase64)
    THEN resolved \cup {p} ELSE resolved
checkIfImagesReady(cap, resolved, p) ==
    IF Truthy(cap.puzzleImageBase64) /\ Truthy(cap.pieceImageBase64)
    THEN resolved \cup {p} ELSE resolved

\* `await this.imagesPromise` may continue.
DataDomeAwaitDone_none(h) == TRUE
DataDomeAwaitDone_stale(h) == \E p \in 0..h.gate : p \in dResolved
DataDomeAwaitDone(h) == h.gate \in dResolved

DataDomeNoInput == [pageUrl |-> NULL, puzzle |-> NULL, piece |-> NULL, text |-> NULL]

\* A suspended 'response' callback.
DataDomeNewHandler(r, pc) ==
    [r |-> r, pc |-> pc, gate |-> imagesPromise, preSat |-> imagesPromise \in dResolved,
     input |-> DataDomeNoInput]

DataDomeNoDone == [outcome |-> "none"]

DataDomeFinish(h, outcome) ==
    [kind |-> h.r.kind, gate |-> h.gate, preSat |-> h.preSat, input |-> h.input,
     outcome |-> outcome]

\* The DataDome handler after construction.
DataDomeConstructed(userAgent) ==
    /\ captchaCapture = DataDomeEmptyCapture
    /\ isProcessing = FALSE
    /\ dUserAgent = userAgent
    /\ imagesPromise = 0
    /\ dResolved = {}
    /\ dResp = <<>>
    /\ dReq = <<>>
    /\ dDone = DataDomeNoDone
    /\ dCount = 0

\* context.on('response'): a response is delivered and its handler runs up to its
\* first await.
DataDomeResponse(r) ==
    /\ scheme = "datadome"
    /\ dCount < MaxEvents
    /\ dCount' = dCount + 1
    /\ CASE r.kind = "puzzle" ->
              /\ captchaCapture' = [captchaCapture EXCEPT !.puzzleImageUrl = r.url]
              /\ dResp' = IF r.ok THEN Append(dResp, DataDomeNewHandler(r, "imageBody")) ELSE dResp
              /\ UNCHANGED isProcessing
         [] r.kind = "piece" ->
              /\ captchaCapture' = [captchaCapture EXCEPT !.pieceImageUrl = r.url]
              /\ dResp' = IF r.ok THEN Append(dResp, DataDomeNewHandler(r, "imageBody")) ELSE dResp
              /\ UNCHANGED isProcessing
         [] r.kind = "captcha" ->
              IF isProcessing
              THEN UNCHANGED <<captchaCapture, dResp, isProcessing>>
              ELSE /\ isProcessing' = TRUE
                   /\ captchaCapture' = [captchaCapture EXCEPT !.captchaPageUrl = r.url]
                   /\ dResp' = Append(dResp, DataDomeNewHandler(r, "awaitGate"))
         [] r.kind = "interstitial" ->
              IF isProcessing
              THEN UNCHANGED <<captchaCapture, dResp, isProcessing>>
              ELSE /\ isProcessing' = TRUE
                   /\ captchaCapture' = [captchaCapture EXCEPT !.interstitialPageUrl = r.url]
                   /\ dResp' = Append(dResp, DataDomeNewHandler(r, "interText"))
    /\ UNCHANGED dOthers
    /\ UNCHANGED <<dUserAgent, imagesPromise, dResolved, dReq, dDone>>

\* response.body() returns in handlePuzzleImageResponse or handlePieceImageResponse:
\* the image is stored and checkIfImagesReady runs.
DataDomeImageBody(i) ==
    /\ scheme = "datadome"
    /\ i \in 1..Len(dResp)
    /\ dResp[i].pc = "imageBody"
    /\ captchaCapture' = IF dResp[i].r.kind = "puzzle"
                         THEN [captchaCapture EXCEPT !.puzzleImageBase64 = dResp[i].r.body]
                         ELSE [captchaCapture EXCEPT !.pieceImageBase64 = dResp[i].r.body]
    /\ dResolved' = checkIfImagesReady(captchaCapture', dResolved, imagesPromise)
    /\ dResp' = RemoveAt(dResp, i)
    /\ UNCHANGED dOthers
    /\ UNCHANGED <<isProcessing, dUserAgent, imagesPromise, dReq, dDone, dCount>>

\* response.body() rejects in an image handler: the callback catches and logs.
DataDomeImageFail(i) ==
    /\ scheme = "datadome"
    /\ i \in 1..Len(dResp)
    /\ dResp[i].pc = "imageBody"
    /\ dResp' = RemoveAt(dResp, i)
    /\ UNCHANGED dOthers
    /\ UNCHANGED <<captchaCapture, isProcessing, dUserAgent, imagesPromise, dResolved,
                   dReq, dDone, dCount>>

\* handleInterstitialPageResponse: response.text() returns or rejects; finally.
DataDomeInterstitialText(i, ok) ==
    /\ scheme = "datadome"
    /\ i \in 1..Len(dResp)
    /\ dResp[i].pc = "interText"
    /\ captchaCapture' = IF ok
                         THEN [captchaCapture EXCEPT !.interstitialPageText = dResp[i].r.body]
                         ELSE captchaCapture
    /\ isProcessing' = FALSE
    /\ dDone' = DataDomeFinish(dResp[i], IF ok THEN "saved" ELSE "failed")
    /\ dResp' = RemoveAt(dResp, i)
    /\ UNCHANGED dOthers
    /\ UNCHANGED <<dUserAgent, imagesPromise, dResolved, dReq, dCount>>

\* handleCaptchaPageResponse continues after `await this.imagesPromise` and calls
\* findCaptchaIframePage.
DataDomeCaptchaAfterGate(i) ==
    /\ scheme = "datadome"
    /\ i \in 1..Len(dResp)
    /\ dResp[i].pc = "awaitGate"
    /\ DataDomeAwaitDone(dResp[i])
    /\ dResp' = [dResp EXCEPT ![i].pc = "findPage"]
    /\ UNCHANGED dOthers
    /\ UNCHANGED <<captchaCapture, isProcessing, dUserAgent, imagesPromise, dResolved,
                   dReq, dDone, dCount>>

\* The end of handleCaptchaPageResponse by a return or a caught error, through
\* `finally { this.isProcessing = false }`.
DataDomeCaptchaEnd(i, outcome) ==
    /\ isProcessing' = FALSE
    /\ dDone' = DataDomeFinish(dResp[i], outcome)
    /\ dResp' = RemoveAt(dResp, i)

\* findCaptchaIframePage returns: no page found ends the handler; otherwise the
\* user agent is read from the page when unset, else the captcha frame is looked
\* up (not found throws) and the parent URL evaluated.
DataDomeCaptchaAfterFind(i, found) ==
    /\ scheme = "datadome"
    /\ i \in 1..Len(dResp)
    /\ dResp[i].pc = "findPage"
    /\ IF ~found
       THEN DataDomeCaptchaEnd(i, "failed")
       ELSE /\ dResp' = [dResp EXCEPT ![i].pc = IF dUserAgent = "" THEN "awaitUA" ELSE "evalParent"]
            /\ UNCHANGED <<isProcessing, dDone>>
    /\ UNCHANGED dOthers
    /\ UNCHANGED <<captchaCapture, dUserAgent, imagesPromise, dResolved, dReq, dCount>>

\* page.evaluate(() => navigator.userAgent) returns; the captcha frame is looked
\* up (found is whether it exists) and the parent URL evaluated.
DataDomeCaptchaAfterUA(i, found) ==
    /\ scheme = "datadome"
    /\ i \in 1..Len(dResp)
    /\ dResp[i].pc = "awaitUA"
    /\ dUserAgent' = "UA"
    /\ IF ~found
       THEN DataDomeCaptchaEnd(i, "failed")
       ELSE /\ dResp' = [dResp EXCEPT ![i].pc = "evalParent"]
            /\ UNCHANGED <<isProcessing, dDone>>
    /\ UNCHANGED dOthers
    /\ UNCHANGED <<captchaCapture, imagesPromise, dResolved, dReq, dCount>>

\* captchaFrame.evaluate returns the parent URL: the arguments of SliderInput are
\* evaluated in order, captchaPageUrl before `await response.text()`.
DataDomeCaptchaAfterParent(i) ==
    /\ scheme = "datadome"
    /\ i \in 1..Len(dResp)
    /\ dResp[i].pc = "evalParent"
    /\ dResp' = [dResp EXCEPT ![i].pc = "awaitText",
                              ![i].input.pageUrl = captchaCapture.captchaPageUrl]
    /\ UNCHANGED dOthers
    /\ UNCHANGED <<captchaCapture, isProcessing, dUserAgent, imagesPromise, dResolved,
                   dReq, dDone, dCount>>

\* response.text() returns: the images are read and generateSliderPayload called.
DataDomeCaptchaAfterText(i) ==
    /\ scheme = "datadome"
    /\ i \in 1..Len(dResp)
    /\ dResp[i].pc = "awaitText"
    /\ dResp' = [dResp EXCEPT ![i].pc = "awaitOracle",
                              ![i].input.text = dResp[i].r.body,
                              ![i].input.puzzle = captchaCapture.puzzleImageBase64,
                              ![i].input.piece = captchaCapture.pieceImageBase64]
    /\ UNCHANGED dOthers
    /\ UNCHANGED <<captchaCapture, isProcessing, dUserAgent, imagesPromise, dResolved,
                   dReq, dDone, dCount>>

\* generateSliderPayload resolves with a result: the device check link is stored
\* and the solution executed in the frame.
DataDomeCaptchaOracleOk(i) ==
    /\ scheme = "datadome"
    /\ i \in 1..Len(dResp)
    /\ dResp[i].pc = "awaitOracle"
    /\ captchaCapture' = [captchaCapture EXCEPT !.deviceCheckLink = "link"]
    /\ dResp' = [dResp EXCEPT ![i].pc = "execute"]
    /\ UNCHANGED dOthers
    /\ UNCHANGED <<isProcessing, dUserAgent, imagesPromise, dResolved, dReq, dDone, dCount>>

\* executeSolutionInIframe and page.setExtraHTTPHeaders return (or the latter
\* rejects): the handler ends.
DataDomeCaptchaExecuted(i) ==
    /\ scheme = "datadome"
    /\ i \in 1..Len(dResp)
    /\ dResp[i].pc = "execute"
    /\ DataDomeCaptchaEnd(i, "solved")
    /\ UNCHANGED dOthers
    /\ UNCHANGED <<captchaCapture, dUserAgent, imagesPromise, dResolved, dReq, dCount>>

\* An awaited call of handleCaptchaPageResponse rejects, or generateSliderPayload
\* resolves with nothing: the handler ends without a solution.
DataDomeCaptchaFail(i) ==
    /\ scheme = "datadome"
    /\ i \in 1..Len(dResp)
    /\ dResp[i].pc \in {"findPage", "awaitUA", "evalParent", "awaitText", "awaitOracle"}
    /\ DataDomeCaptchaEnd(i, "failed")
    /\ UNCHANGED dOthers
    /\ UNCHANGED <<captchaCapture, dUserAgent, imagesPromise, dResolved, dReq, dCount>>

\* The route callback of setupRequestInterception for a request to the
\* interstitial endpoint.
DataDomeInterstitialRoute(method) ==
    /\ scheme = "datadome"
    /\ dCount < MaxEvents
    /\ dCount' = dCount + 1
    /\ IF method # "POST"
       THEN UNCHANGED dReq
       ELSE dReq' = Append(dReq,
                 IF dUserAgent = ""
                 THEN [pc |-> "awaitUA", input |-> DataDomeNoInput]
                 ELSE [pc |-> "awaitOracle",
                       input |-> [DataDomeNoInput EXCEPT
                                     !.pageUrl = captchaCapture.interstitialPageUrl,
                                     !.text = captchaCapture.interstitialPageText]])
    /\ UNCHANGED dOthers
    /\ UNCHANGED <<captchaCapture, isProcessing, dUserAgent, imagesPromise, dResolved,
                   dResp, dDone>>

\* page.evaluate(() => navigator.userAgent) returns in the route callback.
DataDomeInterstitialAfterUA(i) ==
    /\ scheme = "datadome"
    /\ i \in 1..Len(dReq)
    /\ dReq[i].pc = "awaitUA"
    /\ dUserAgent' = "UA"
    /\ dReq' = [dReq EXCEPT ![i] = [pc |-> "awaitOracle",
                                     input |-> [DataDomeNoInput EXCEPT
                                        !.pageUrl = captchaCapture.interstitialPageUrl,
                                        !.text = captchaCapture.interstitialPageText]]]
    /\ UNCHANGED dOthers
    /\ UNCHANGED <<captchaCapture, isProcessing, imagesPromise, dResolved, dResp, dDone, dCount>>

\* The ways generateInterstitialPayload settles: with a result, with nothing, rejected.
InterstitialSettled == {"result", "empty", "rejected"}

\* The end of the route callback of an interstitial POST: the request went out with
\* the payload ("mutated"), the callback returned without continuing or fulfilling
\* it ("unhandled"), or the callback threw ("thrown", the request is not continued either).
DataDomeRouteFinish(req, settled) ==
    [kind |-> "interstitialPost", gate |-> 0, preSat |-> FALSE, input |-> req.input,
     oracle |-> settled,
     outcome |-> CASE settled = "result" -> "mutated"
                   [] settled = "empty" -> "unhandled"
                   [] settled = "rejected" -> "thrown"]

\* generateInterstitialPayload settles: with a result the request is continued with
\* the payload; with no result the callback returns; a rejection leaves the callback.
DataDomeInterstitialOracle(i, settled) ==
    /\ scheme = "datadome"
    /\ i \in 1..Len(dReq)
    /\ dReq[i].pc = "awaitOracle"
    /\ dDone' = DataDomeRouteFinish(dReq[i], settled)
    /\ dReq' = RemoveAt(dReq, i)
    /\ UNCHANGED dOthers
    /\ UNCHANGED <<captchaCapture, isProcessing, dUserAgent, imagesPromise, dResolved,
                   dResp, dCount>>

\* DataDomeHandler.reset()
DataDomeReset ==
    /\ scheme = "datadome"
    /\ dCount < MaxEvents
    /\ dCount' = dCount + 1
    /\ captchaCapture' = DataDomeEmptyCapture
    /\ isProcessing' = FALSE
    /\ imagesPromise' = imagesPromise + 1
    /\ UNCHANGED dOthers
    /\ UNCHANGED <<dUserAgent, dResolved, dResp, dReq, dDone>>

NextDataDome ==
    \/ \E r \in DataDomeResponses : DataDomeResponse(r)
    \/ \E i \in 1..MaxEvents : DataDomeImageBody(i)
    \/ \E i \in 1..MaxEvents : DataDomeImageFail(i)
    \/ \E i \in 1..MaxEvents, ok \in BOOLEAN : DataDomeInterstitialText(i, ok)
    \/ \E i \in 1..MaxEvents : DataDomeCaptchaAfterGate(i)
    \/ \E i \in 1..MaxEvents, found \in BOOLEAN : DataDomeCaptchaAfterFind(i, found)
    \/ \E i \in 1..MaxEvents, found \in BOOLEAN : DataDomeCaptchaAfterUA(i, found)
    \/ \E i \in 1..MaxEvents : DataDomeCaptchaAfterParent(i)
    \/ \E i \in 1..MaxEvents : DataDomeCaptchaAfterText(i)
    \/ \E i \in 1..MaxEvents : DataDomeCaptchaOracleOk(i)
    \/ \E i \in 1..MaxEvents : DataDomeCaptchaExecuted(i)
    \/ \E i \in 1..MaxEvents : DataDomeCaptchaFail(i)
    \/ \E m \in Methods : DataDomeInterstitialRoute(m)
    \/ \E i \in 1..MaxEvents : DataDomeInterstitialAfterUA(i)
    \/ \E i \in 1..MaxEvents, settled \in InterstitialSettled : DataDomeInterstitialOracle(i, settled)
    \/ DataDomeReset

(***************************************************************************)
(*                              INCAPSULA                                  *)
(*                                                                         *)
(* URLs, paths and request bodies are sequences of characters.  A URL is   *)
(* written from its path on (the origin is left out): /a/b?d=x.            *)
(***************************************************************************)
\* The first place of the character c in s, 0 when there is none.
IndexOf(s, c) ==
    IF \E k \in 1..Len(s) : s[k] = c
    THEN CHOOSE k \in 1..Len(s) : s[k] = c /\ \A j \in 1..(k - 1) : s[j] # c
    ELSE 0

\* String.prototype.startsWith and String.prototype.includes
StartsWith(s, p) == Len(p) <= Len(s) /\ SubSeq(s, 1, Len(p)) = p
Includes(s, p) == \E k \in 0..(Len(s) - Len(p)) : SubSeq(s, k + 1, k + Len(p)) = p

\* new URL(requestUrl).pathname : what comes before the first `?`
Pathname(requestUrl) ==
    IF IndexOf(requestUrl, "?") = 0 THEN requestUrl
    ELSE SubSeq(requestUrl, 1, IndexOf(requestUrl, "?") - 1)

\* new URL(requestUrl).search without its `?`
SearchOf(requestUrl) ==
    IF IndexOf(requestUrl, "?") = 0 THEN <<>>
    ELSE SubSeq(requestUrl, IndexOf(requestUrl, "?") + 1, Len(requestUrl))

\* url.searchParams.get(name): found is FALSE for null, else value is the value of
\* the first parameter of that name.
RECURSIVE SearchParamsGet(_, _)
SearchParamsGet(search, name) ==
    IF search = <<>> THEN [found |-> FALSE, value |-> <<>>]
    ELSE LET amp == IndexOf(search, "&")
             seg == IF amp = 0 THEN search ELSE SubSeq(search, 1, amp - 1)
             rest == IF amp = 0 THEN <<>> ELSE SubSeq(search, amp + 1, Len(search))
             eq == IndexOf(seg, "=")
             key == IF eq = 0 THEN seg ELSE SubSeq(seg, 1, eq - 1)
             val == IF eq = 0 THEN <<>> ELSE SubSeq(seg, eq + 1, Len(seg))
         IN IF key = name THEN [found |-> TRUE, value |-> val]
            ELSE SearchParamsGet(rest, name)

\* The route pattern /.*\?.*d=.*/
incapsulaRoutePattern(requestUrl) ==
    IndexOf(requestUrl, "?") # 0 /\ Includes(SearchOf(requestUrl), <<"d", "=">>)

\* null as the result of findMatchingScriptPath
NoPath == <<NULL>>

\* The loop of findMatchingScriptPath over the keys in insertion order, from the
\* k-th on: the first key the pathname starts with.
RECURSIVE FirstMatch_last(_, _, _)
FirstMatch_last(keys, pathname, k) ==
    IF k > Len(keys) THEN NoPath
    ELSE IF FirstMatch_last(keys, pathname, k + 1) # NoPath
         THEN FirstMatch_last(keys, pathname, k + 1)
         ELSE IF StartsWith(pathname, keys[k]) THEN keys[k] ELSE NoPath

RECURSIVE FirstMatch(_, _, _)
FirstMatch(keys, pathname, k) ==
    IF k > Len(keys) THEN NoPath
    ELSE IF StartsWith(pathname, keys[k]) THEN keys[k]
         ELSE FirstMatch(keys, pathname, k + 1)

\* this.scriptPathToSitekey.keys()
MapKeys(map) == [k \in 1..Len(map) |-> map[k].path]

\* findMatchingScriptPath of the static variant (over the keys of scriptPathToSitekey)
\* and of the dynamic variant (over detectedReese84Paths).
findMatchingScriptPath(map, requestUrl) == FirstMatch(MapKeys(map), Pathname(requestUrl), 1)
findMatchingDetectedPath(paths, requestUrl) == FirstMatch(paths, Pathname(requestUrl), 1)

\* Map.prototype.set, Map.prototype.delete, Map.prototype.has and Map.prototype.get
\* on a map kept as the sequence of its entries in insertion order.
MapHas(map, path) == \E k \in 1..Len(map) : map[k].path = path
MapGet(map, path) == map[CHOOSE k \in 1..Len(map) : map[k].path = path].val
MapSet(map, path, val) ==
    IF MapHas(map, path)
    THEN [k \in 1..Len(map) |-> IF map[k].path = path THEN [path |-> path, val |-> val] ELSE map[k]]
    ELSE Append(map, [path |-> path, val |-> val])
MapDelete(map, path) == SelectSeq(map, LAMBDA e : e.path # path)

PathA == <<"/", "a">>
PathAB == <<"/", "a", "/", "b">>
PathC == <<"/", "c">>
PathCA == <<"/", "c", "/", "a">>
QueryD == <<"d", "=", "x">>
QueryEmptyD == <<"d", "=">>
QueryOtherD == <<"x", "d", "=", "/", "a">>

\* The URL string of a path and a query.
Href(path, query) == IF query = <<>> THEN path ELSE path \o <<"?">> \o query

(***************************************************************************)
(* findMatchingScriptPath applied to a registry and a URL.                 *)
(***************************************************************************)
FindPrefixes == {<<>>, PathA, PathAB, PathC}
FindPaths == {PathA, PathAB, PathC, PathCA, <<"/">>}
FindQueries == {<<>>, QueryD, QueryOtherD}

\* The registries: the sequences of distinct prefixes.
FindRegistries ==
    {<<>>} \cup { <<p>> : p \in FindPrefixes }
      \cup { s \in { <<p, q>> : p \in FindPrefixes, q \in FindPrefixes } : s[1] # s[2] }
      \cup { s \in { <<PathAB, PathA, r>> : r \in FindPrefixes } \cup
                   { <<PathA, r, PathAB>> : r \in FindPrefixes } :
               \A i, j \in 1..3 : i # j => s[i] # s[j] }

FindUnset == [variant |-> "none", value |-> NoPath]

\* The static variant's function on the registry as the keys of a map.
FindStatic ==
    /\ scheme = "find"
    /\ fRes = FindUnset
    /\ fRes' = [variant |-> "static",
                value |-> findMatchingScriptPath(
                              [k \in 1..Len(fKeys) |-> [path |-> fKeys[k], val |-> "sk"]],
                              Href(fUrl.path, fUrl.query))]
    /\ UNCHANGED <<fKeys, fUrl>>
    /\ UNCHANGED fOthers

\* The dynamic variant's function on the registry as the set of detected paths.
FindDynamic ==
    /\ scheme = "find"
    /\ fRes = FindUnset
    /\ fRes' = [variant |-> "dynamic",
                value |-> findMatchingDetectedPath(fKeys, Href(fUrl.path, fUrl.query))]
    /\ UNCHANGED <<fKeys, fUrl>>
    /\ UNCHANGED fOthers

NextFind == FindStatic \/ FindDynamic

(***************************************************************************)
(* The Incapsula handlers: the static variant (a configured map of script  *)
(* paths to sitekeys) and the dynamic variant (script paths detected from  *)
(* responses).                                                             *)
(***************************************************************************)
BodyObject == <<"{", "}">>
BodyQuoted == <<"\"", "a", "\"">>

\* contentType.includes("application/json"), for the content types of the model.
IncludesJson_any(contentType) == TRUE
IncludesJson(contentType) == contentType = "application/json"

\* postData && postData.startsWith('"') ; a request without body has postData <<>>.
IsRefreshBody(postData) == postData # <<>> /\ StartsWith(postData, <<"\"">>)

\* The events of a run count against a budget of their own.
IncapsulaMaxEvents == MaxEvents - 1

IncapsulaEmptyCapture == [interceptedPaths |-> <<>>, activeSitekeys |-> <<>>, detectedScripts |-> <<>>]

IncapsulaNoInput == [sitekey |-> NULL, scriptUrl |-> <<>>, content |-> ""]

IncapsulaNoDone == [outcome |-> "none"]

\* The results generateReese84Sensor resolves with, and none.
IncapsulaResults == {<<"r", "1">>, <<"r", "2">>}
IncapsulaNoResult == <<NULL>>

\* route.continue(): the request goes out with the body the page gave it.
IncapsulaFinish(req, outcome, oracle) ==
    [url |-> req.url, method |-> req.method, ct |-> req.ct, body |-> req.body,
     path |-> req.path, mapAt |-> req.mapAt, input |-> req.input, outcome |-> outcome,
     oracle |-> oracle, result |-> IncapsulaNoResult, sent |-> req.body]

\* route.continue({ postData: result })
IncapsulaContinueWith(req, result) ==
    [IncapsulaFinish(req, "mutated", "ok") EXCEPT !.result = result, !.sent = result]

\* IncapsulaHandler.getStatus of the static variant
StaticStatus ==
    [interceptedPaths |-> iScriptCapture.interceptedPaths,
     activeSitekeys |-> iScriptCapture.activeSitekeys,
     scriptPathMappings |-> scriptPathToSitekey,
     scriptUrls |-> scriptPathToScriptUrl]

\* IncapsulaHandler.getStatus of the dynamic variant
DynamicStatus ==
    [interceptedPaths |-> iScriptCapture.interceptedPaths,
     detectedScripts |-> iScriptCapture.detectedScripts,
     scriptUrls |-> scriptPathToScriptUrl]

\* No getStatus() call yet.
NoSnapshot == [taken |-> FALSE, shared |-> FALSE, status |-> <<>>]

(***************************************************************************)
(* The utmvc cookie.  The route callback of _Incapsula_Resource?SWJIYLWA=   *)
(* asks the oracle for a payload and evaluates a script in the page that   *)
(* replaces the accessor of document.cookie.                               *)
(*                                                                         *)
(* A string assigned to document.cookie is a sequence of pieces: "N" is    *)
(* the text `___utmvc=`, ";" is a semicolon, any other piece is text       *)
(* without a semicolon and without the name.                               *)
(***************************************************************************)
UtmvcName == "N"

\* The strings a page script assigns to document.cookie: another cookie, the
\* utmvc cookie with a value (alone, with attributes, after another pair), and
\* the utmvc cookie with an empty value (alone, and with attributes).
CookieWrites ==
    { <<"x">>, <<"N", "x">>, <<"N", "x", ";", "x">>, <<"x", ";", "N", "x">>,
      <<"N">>, <<"N", ";", "x">> }

\* result.payload of generateUtmvcCookie
UtmvcPayloads == {"V1", "V2"}

\* value.includes('___utmvc=')
includes(value) == \E k \in 1..Len(value) : value[k] = UtmvcName

\* Where /___utmvc=([^;]+)/ matches in value: the first occurrence of the name
\* that is followed by at least one character other than a semicolon (0: none)
MatchStart(value) ==
    LET at == { k \in 1..(Len(value) - 1) : value[k] = UtmvcName /\ value[k + 1] # ";" }
    IN IF at = {} THEN 0 ELSE CHOOSE k \in at : \A l \in at : k <= l

\* ([^;]+) is greedy: the match ends before the next semicolon or at the end
MatchEnd(value, start) ==
    CHOOSE e \in (start + 1)..Len(value) :
        /\ \A k \in (start + 1)..e : value[k] # ";"
        /\ e = Len(value) \/ value[e + 1] = ";"

\* value.replace(/___utmvc=([^;]+)/, `___utmvc=${utmvcValue}`)
replace(value, utmvcValue) ==
    LET start == MatchStart(value)
    IN IF start = 0
       THEN value
       ELSE SubSeq(value, 1, start - 1) \o <<UtmvcName, utmvcValue>>
              \o SubSeq(value, MatchEnd(value, start) + 1, Len(value))

\* Before any utmvc request: this.utmvc is not set, document.cookie has the
\* accessor of Document.prototype, and nothing was written.
UtmvcConstructed ==
    [utmvc |-> NULL, pc |-> "idle", hooked |-> FALSE, utmvcValue |-> NULL,
     intercepted |-> FALSE, injections |-> 0, writes |-> <<>>, count |-> 0]

IsIncapsula == scheme \in {"incapsulaStatic", "incapsulaDynamic"}

\* What a utmvc step leaves alone
uOthers == <<scheme, kvars, avars, dvars, fvars, iSnapshot, kErrorDone, aPixelDone, kHeaders,
             aEpochCalls>>
uIncapsula == <<scriptPathToSitekey, detectedReese84Paths, scriptPathToScriptUrl,
                scriptPathToScriptContent, iScriptCapture, iResp, iReq, iDone, iCount>>

\* page.route(/.*\/_Incapsula_Resource\?SWJIYLWA=.*/): a utmvc request is
\* intercepted; the callback awaits route.fetch() and response.text().
UtmvcRoute ==
    /\ IsIncapsula
    /\ utmvcPage.pc = "idle"
    /\ utmvcPage.count < MaxEvents
    /\ utmvcPage' = [utmvcPage EXCEPT !.pc = "awaitFetch", !.count = @ + 1]
    /\ UNCHANGED <<uOthers, uIncapsula, iUserAgent>>

\* route.fetch() and response.text() return
UtmvcAfterFetch ==
    /\ IsIncapsula
    /\ utmvcPage.pc = "awaitFetch"
    /\ utmvcPage' = [utmvcPage EXCEPT !.pc = IF iUserAgent = "" THEN "awaitUA" ELSE "awaitOracle"]
    /\ UNCHANGED <<uOthers, uIncapsula, iUserAgent>>

\* page.evaluate(() => navigator.userAgent) returns; context.cookies() and the
\* oracle call follow
UtmvcAfterUA ==
    /\ IsIncapsula
    /\ utmvcPage.pc = "awaitUA"
    /\ iUserAgent' = "UA"
    /\ utmvcPage' = [utmvcPage EXCEPT !.pc = "awaitOracle"]
    /\ UNCHANGED <<uOthers, uIncapsula>>

\* context.cookies() and generateUtmvcCookie return: this.utmvc is set and
\* page.evaluate is called with the script text that carries the payload
UtmvcOracleOk(payload) ==
    /\ IsIncapsula
    /\ utmvcPage.pc = "awaitOracle"
    /\ utmvcPage' = [utmvcPage EXCEPT !.utmvc = payload, !.pc = "awaitEvaluate"]
    /\ UNCHANGED <<uOthers, uIncapsula, iUserAgent>>

\* The injected script runs in the page: Object.defineProperty(document,
\* 'cookie', ...) with a setter that closes over utmvcValue and a fresh
\* `intercepted`; page.evaluate returns and the route is continued.
UtmvcInjected ==
    /\ IsIncapsula
    /\ utmvcPage.pc = "awaitEvaluate"
    /\ utmvcPage' = [utmvcPage EXCEPT !.pc = "idle", !.hooked = TRUE,
                                      !.utmvcValue = utmvcPage.utmvc,
                                      !.intercepted = FALSE, !.injections = @ + 1]
    /\ UNCHANGED <<uOthers, uIncapsula, iUserAgent>>

\* An awaited call of the callback rejects: catch, route.continue()
UtmvcFail ==
    /\ IsIncapsula
    /\ utmvcPage.pc \in {"awaitFetch", "awaitUA", "awaitOracle", "awaitEvaluate"}
    /\ utmvcPage' = [utmvcPage EXCEPT !.pc = "idle"]
    /\ UNCHANGED <<uOthers, uIncapsula, iUserAgent>>

\* The setter the injected script installs, applied to value: what is handed to
\* originalCookieDescriptor.set, and whether the accessor is replaced by
\* originalCookieDescriptor afterwards.
HookRewrites(page, value) == ~page.intercepted /\ includes(value)
HookPassed(page, value) ==
    IF HookRewrites(page, value) THEN replace(value, page.utmvcValue) ELSE value

\* A script of the page assigns value to document.cookie.  Each write is
\* recorded with what reached the original setter, the number of injections
\* made before it, and whether document.cookie has the original accessor
\* after it.
CookieWrite(value) ==
    /\ IsIncapsula
    /\ utmvcPage.count < MaxEvents
    /\ LET rewrites == utmvcPage.hooked /\ HookRewrites(utmvcPage, value)
           passed == IF utmvcPage.hooked THEN HookPassed(utmvcPage, value) ELSE value
           hooked == utmvcPage.hooked /\ ~rewrites
       IN utmvcPage' = [utmvcPage EXCEPT
              !.hooked = hooked,
              !.intercepted = IF rewrites THEN TRUE ELSE @,
              !.count = @ + 1,
              !.writes = Append(@, [value |-> value, passed |-> passed,
                                    injections |-> utmvcPage.injections,
                                    original |-> ~hooked])]
    /\ UNCHANGED <<uOthers, uIncapsula, iUserAgent>>

NextUtmvc ==
    \/ UtmvcRoute
    \/ UtmvcAfterFetch
    \/ UtmvcAfterUA
    \/ \E payload \in UtmvcPayloads : UtmvcOracleOk(payload)
    \/ UtmvcInjected
    \/ UtmvcFail
    \/ \E value \in CookieWrites : CookieWrite(value)

\* The Incapsula handler after construction, with the configured map (static variant).
IncapsulaConstructed(userAgent, map) ==
    /\ iSnapshot = NoSnapshot
    /\ utmvcPage = UtmvcConstructed
    /\ scriptPathToSitekey = map
    /\ detectedReese84Paths = <<>>
    /\ scriptPathToScriptUrl = <<>>
    /\ scriptPathToScriptContent = <<>>
    /\ iScriptCapture = IncapsulaEmptyCapture
    /\ iUserAgent = userAgent
    /\ iResp = <<>>
    /\ iReq = <<>>
    /\ iDone = IncapsulaNoDone
    /\ iCount = 0

\* shouldInterceptIncapsulaRequest
shouldInterceptIncapsulaRequest(requestUrl, method, scriptPath) ==
    method = "POST" /\ Includes(requestUrl, scriptPath)

getSitekeyForRequest_firstEntry(map, requestUrl, scriptPath) ==
    IF map = <<>> THEN NULL ELSE map[1].val

\* getSitekeyForRequest: `domainParam && this.scriptPathToSitekey.has(scriptPath)`,
\* then `baseSitekey || null`.
getSitekeyForRequest(map, requestUrl, scriptPath) ==
    LET domainParam == SearchParamsGet(SearchOf(requestUrl), <<"d">>)
    IN IF domainParam.found /\ domainParam.value # <<>> /\ MapHas(map, scriptPath)
       THEN IF Truthy(MapGet(map, scriptPath)) THEN MapGet(map, scriptPath) ELSE NULL
       ELSE NULL

\* this.scriptPathToScriptUrl.get(scriptPath) || ""
MapGetOrEmpty(map, path, empty) == IF MapHas(map, path) THEN MapGet(map, path) ELSE empty

\* interceptedPaths.push(scriptPath) unless it is included
TrackPath_push(paths, scriptPath) == Append(paths, scriptPath)
TrackPath(paths, scriptPath) ==
    IF \E k \in 1..Len(paths) : paths[k] = scriptPath THEN paths ELSE Append(paths, scriptPath)

StaticResponses ==
    { [url |-> Href(PathA, <<>>), method |-> "GET"],
      [url |-> Href(PathC, <<>>), method |-> "GET"] }

StaticRequests ==
    { [url |-> Href(PathA, QueryD), method |-> "POST", ct |-> "application/json", body |-> BodyObject],
      [url |-> Href(PathA, QueryD), method |-> "POST", ct |-> "text/plain", body |-> BodyObject],
      [url |-> Href(PathA, QueryD), method |-> "POST", ct |-> "application/json", body |-> BodyQuoted],
      [url |-> Href(PathA, QueryD), method |-> "POST", ct |-> NULL, body |-> BodyObject],
      [url |-> Href(PathA, QueryEmptyD), method |-> "POST", ct |-> "application/json", body |-> BodyObject],
      [url |-> Href(PathAB, QueryD), method |-> "POST", ct |-> "application/json", body |-> BodyObject],
      [url |-> Href(PathA, QueryD), method |-> "GET", ct |-> "application/json", body |-> <<>>],
      [url |-> Href(PathC, QueryOtherD), method |-> "POST", ct |-> "application/json", body |-> BodyObject] }

StaticMaps ==
    { << [path |-> PathA, val |-> "sk1"] >>,
      << [path |-> PathA, val |-> ""] >>,
      << [path |-> PathAB, val |-> "sk2"], [path |-> PathA, val |-> "sk1"] >> }

\* page.on('response') of the static variant: the URL of a GET response under a
\* configured script path is stored.
StaticResponse(r) ==
    /\ scheme = "incapsulaStatic"
    /\ iCount < IncapsulaMaxEvents
    /\ iCount' = iCount + 1
    /\ LET matching == findMatchingScriptPath(scriptPathToSitekey, r.url)
       IN scriptPathToScriptUrl' =
             IF r.method = "GET" /\ matching # NoPath /\ matching # <<>>
             THEN MapSet(scriptPathToScriptUrl, matching, r.url)
             ELSE scriptPathToScriptUrl
    /\ UNCHANGED iOthers
    /\ UNCHANGED <<scriptPathToSitekey, detectedReese84Paths, scriptPathToScriptContent,
                   iScriptCapture, iUserAgent, iResp, iReq, iDone>>

\* The route callback of the static variant for a request the pattern matches:
\* up to `await route.request().headerValue("content-type")`.
StaticRoute(req) ==
    /\ scheme = "incapsulaStatic"
    /\ iCount < IncapsulaMaxEvents
    /\ incapsulaRoutePattern(req.url)
    /\ iCount' = iCount + 1
    /\ LET matching == findMatchingScriptPath(scriptPathToSitekey, req.url)
           r == [url |-> req.url, method |-> req.method, ct |-> req.ct, body |-> req.body,
                 path |-> matching, mapAt |-> <<>>, pc |-> "awaitHeader",
                 input |-> IncapsulaNoInput]
       IN IF matching # NoPath /\ matching # <<>>
             /\ shouldInterceptIncapsulaRequest(req.url, req.method, matching)
          THEN /\ iReq' = Append(iReq, r)
               /\ UNCHANGED iDone
          ELSE /\ iDone' = IncapsulaFinish(r, "continued", "none")
               /\ UNCHANGED iReq
    /\ UNCHANGED iOthers
    /\ UNCHANGED <<scriptPathToSitekey, detectedReese84Paths, scriptPathToScriptUrl,
                   scriptPathToScriptContent, iScriptCapture, iUserAgent, iResp>>

\* The call of generateReese84Sensor by the route callback i of the static variant.
StaticCallOracle(i, sitekey) ==
    /\ iReq' = [iReq EXCEPT ![i].pc = "awaitOracle",
                            ![i].mapAt = IF iReq[i].pc = "awaitHeader"
                                         THEN scriptPathToSitekey ELSE @,
                            ![i].input = [IncapsulaNoInput EXCEPT
                                 !.sitekey = sitekey,
                                 !.scriptUrl = MapGetOrEmpty(scriptPathToScriptUrl, iReq[i].path, <<>>)]]
    /\ UNCHANGED iDone

\* handleIncapsulaRequest of the static variant continues after the header value:
\* a missing header throws (the route callback continues the request), another
\* content type than JSON and a missing sitekey continue the request as it is.
StaticAfterHeader(i) ==
    /\ scheme = "incapsulaStatic"
    /\ i \in 1..Len(iReq)
    /\ iReq[i].pc = "awaitHeader"
    /\ LET sitekey == getSitekeyForRequest(scriptPathToSitekey, iReq[i].url, iReq[i].path)
       IN IF iReq[i].ct = NULL \/ ~IncludesJson(iReq[i].ct) \/ ~Truthy(sitekey)
          THEN /\ iDone' = IncapsulaFinish(iReq[i], "continued", "none")
               /\ iReq' = RemoveAt(iReq, i)
               /\ UNCHANGED iScriptCapture
          ELSE /\ iScriptCapture' = [iScriptCapture EXCEPT
                     !.interceptedPaths = TrackPath(@, iReq[i].path),
                     !.activeSitekeys = MapSet(@, iReq[i].path, sitekey)]
               /\ IF iUserAgent = ""
                  THEN /\ iReq' = [iReq EXCEPT ![i].pc = "awaitUA", ![i].input.sitekey = sitekey,
                                               ![i].mapAt = scriptPathToSitekey]
                       /\ UNCHANGED iDone
                  ELSE StaticCallOracle(i, sitekey)
    /\ UNCHANGED iOthers
    /\ UNCHANGED <<scriptPathToSitekey, detectedReese84Paths, scriptPathToScriptUrl,
                   scriptPathToScriptContent, iUserAgent, iResp, iCount>>

\* page.evaluate(() => navigator.userAgent) returns in the static variant.
StaticAfterUA(i) ==
    /\ scheme = "incapsulaStatic"
    /\ i \in 1..Len(iReq)
    /\ iReq[i].pc = "awaitUA"
    /\ iUserAgent' = "UA"
    /\ StaticCallOracle(i, iReq[i].input.sitekey)
    /\ UNCHANGED iOthers
    /\ UNCHANGED <<scriptPathToSitekey, detectedReese84Paths, scriptPathToScriptUrl,
                   scriptPathToScriptContent, iScriptCapture, iResp, iCount>>

\* generateReese84Sensor resolves (the request is continued with the result as its
\* body) or rejects (the route callback continues the request as it is); either variant.
IncapsulaOracle(i, ok) ==
    /\ scheme \in {"incapsulaStatic", "incapsulaDynamic"}
    /\ i \in 1..Len(iReq)
    /\ iReq[i].pc = "awaitOracle"
    /\ \E result \in IncapsulaResults :
          iDone' = IF ok THEN IncapsulaContinueWith(iReq[i], result)
                   ELSE IncapsulaFinish(iReq[i], "continued", "failed")
    /\ iReq' = RemoveAt(iReq, i)
    /\ UNCHANGED iOthers
    /\ UNCHANGED <<scriptPathToSitekey, detectedReese84Paths, scriptPathToScriptUrl,
                   scriptPathToScriptContent, iScriptCapture, iUserAgent, iResp, iCount>>

\* addScriptPathMapping
StaticAddMapping(path, sitekey) ==
    /\ scheme = "incapsulaStatic"
    /\ iCount < IncapsulaMaxEvents
    /\ iCount' = iCount + 1
    /\ scriptPathToSitekey' = MapSet(scriptPathToSitekey, path, sitekey)
    /\ UNCHANGED iOthers
    /\ UNCHANGED <<detectedReese84Paths, scriptPathToScriptUrl, scriptPathToScriptContent,
                   iScriptCapture, iUserAgent, iResp, iReq, iDone>>

\* removeScriptPathMapping
StaticRemoveMapping(path) ==
    /\ scheme = "incapsulaStatic"
    /\ iCount < IncapsulaMaxEvents
    /\ iCount' = iCount + 1
    /\ scriptPathToSitekey' = MapDelete(scriptPathToSitekey, path)
    /\ UNCHANGED iOthers
    /\ UNCHANGED <<detectedReese84Paths, scriptPathToScriptUrl, scriptPathToScriptContent,
                   iScriptCapture, iUserAgent, iResp, iReq, iDone>>

\* What the holder of the object returned by getStatus() reads in it.  The object
\* is `{ ...this.scriptCapture, ... }`: interceptedPaths and activeSitekeys (static)
\* or detectedScripts (dynamic) are the array and the Map of this.scriptCapture
\* themselves for as long as reset() has not replaced this.scriptCapture; the
\* other maps are copies (`new Map(...)`).
SnapshotView ==
    IF ~iSnapshot.shared THEN iSnapshot.status
    ELSE IF scheme = "incapsulaStatic"
         THEN [iSnapshot.status EXCEPT !.interceptedPaths = iScriptCapture.interceptedPaths,
                                       !.activeSitekeys = iScriptCapture.activeSitekeys]
         ELSE [iSnapshot.status EXCEPT !.interceptedPaths = iScriptCapture.interceptedPaths,
                                       !.detectedScripts = iScriptCapture.detectedScripts]

\* reset() assigns a new object with a new array and Map to this.scriptCapture:
\* the object returned earlier keeps the old ones as they are now.
SnapshotDetached == [iSnapshot EXCEPT !.shared = FALSE, !.status = SnapshotView]

\* getStatus() of the static variant (one call in a run).
StaticGetStatus ==
    /\ scheme = "incapsulaStatic"
    /\ ~iSnapshot.taken
    /\ iSnapshot' = [taken |-> TRUE, shared |-> TRUE, status |-> StaticStatus]
    /\ UNCHANGED iControllers
    /\ UNCHANGED ivars

\* getStatus() of the dynamic variant (one call in a run).
DynamicGetStatus ==
    /\ scheme = "incapsulaDynamic"
    /\ ~iSnapshot.taken
    /\ iSnapshot' = [taken |-> TRUE, shared |-> TRUE, status |-> DynamicStatus]
    /\ UNCHANGED iControllers
    /\ UNCHANGED ivars

\* reset() of the static variant
StaticReset_clearSitekeys ==
    /\ scheme = "incapsulaStatic"
    /\ iCount < IncapsulaMaxEvents
    /\ iCount' = iCount + 1
    /\ iScriptCapture' = IncapsulaEmptyCapture
    /\ scriptPathToScriptUrl' = <<>>
    /\ scriptPathToSitekey' = <<>>
    /\ iSnapshot' = SnapshotDetached
    /\ UNCHANGED iControllers
    /\ UNCHANGED <<detectedReese84Paths, scriptPathToScriptContent,
                   iUserAgent, iResp, iReq, iDone>>
StaticReset ==
    /\ scheme = "incapsulaStatic"
    /\ iCount < IncapsulaMaxEvents
    /\ iCount' = iCount + 1
    /\ iScriptCapture' = IncapsulaEmptyCapture
    /\ scriptPathToScriptUrl' = <<>>
    /\ iSnapshot' = SnapshotDetached
    /\ UNCHANGED iControllers
    /\ UNCHANGED <<scriptPathToSitekey, detectedReese84Paths, scriptPathToScriptContent,
                   iUserAgent, iResp, iReq, iDone>>

NextIncapsulaStatic ==
    \/ \E r \in StaticResponses : StaticResponse(r)
    \/ \E q \in StaticRequests : StaticRoute(q)
    \/ \E i \in 1..MaxEvents : StaticAfterHeader(i)
    \/ \E i \in 1..MaxEvents : StaticAfterUA(i)
    \/ \E i \in 1..MaxEvents, ok \in BOOLEAN : IncapsulaOracle(i, ok)
    \/ \E p \in {PathA, PathAB}, k \in {"sk1", "sk3"} : StaticAddMapping(p, k)
    \/ \E p \in {PathA, PathAB} : StaticRemoveMapping(p)
    \/ StaticReset

\* GET responses seen by the script detector: imperva is `x-cdn` being imperva,
\* js the content type including javascript, reese the body including 'var reese84'.
DynamicResponses ==
    { [url |-> Href(PathA, <<>>), method |-> "GET", imperva |-> TRUE, js |-> TRUE,
       reese |-> TRUE, content |-> "js1"],
      [url |-> Href(PathAB, QueryD), method |-> "GET", imperva |-> TRUE, js |-> TRUE,
       reese |-> TRUE, content |-> "js2"],
      [url |-> Href(PathA, <<>>), method |-> "GET", imperva |-> TRUE, js |-> TRUE,
       reese |-> FALSE, content |-> "js3"],
      [url |-> Href(PathC, <<>>), method |-> "GET", imperva |-> FALSE, js |-> TRUE,
       reese |-> TRUE, content |-> "js4"] }

DynamicRequests ==
    { [url |-> Href(PathA, QueryD), method |-> "POST", ct |-> "application/json", body |-> BodyObject],
      [url |-> Href(PathA, QueryD), method |-> "POST", ct |-> "application/json", body |-> BodyQuoted],
      [url |-> Href(PathA, QueryD), method |-> "POST", ct |-> "text/plain", body |-> BodyQuoted],
      [url |-> Href(PathAB, QueryD), method |-> "POST", ct |-> "text/plain", body |-> <<>>],
      [url |-> Href(PathA, QueryD), method |-> "GET", ct |-> "application/json", body |-> <<>>],
      [url |-> Href(PathC, QueryOtherD), method |-> "POST", ct |-> "application/json", body |-> BodyObject] }

\* The script detector for a response, up to `await response.text()`.
DynamicResponse(r) ==
    /\ scheme = "incapsulaDynamic"
    /\ iCount < IncapsulaMaxEvents
    /\ iCount' = iCount + 1
    /\ iResp' = IF r.method = "GET" /\ r.imperva /\ r.js THEN Append(iResp, r) ELSE iResp
    /\ UNCHANGED iOthers
    /\ UNCHANGED <<scriptPathToSitekey, detectedReese84Paths, scriptPathToScriptUrl,
                   scriptPathToScriptContent, iScriptCapture, iUserAgent, iReq, iDone>>

\* response.text() returns (ok) or rejects in the script detector: a body with
\* 'var reese84' registers the pathname of the URL.
DynamicDetected(i, ok) ==
    /\ scheme = "incapsulaDynamic"
    /\ i \in 1..Len(iResp)
    /\ iResp' = RemoveAt(iResp, i)
    /\ IF ok /\ iResp[i].reese
       THEN LET scriptPath == Pathname(iResp[i].url)
            IN /\ detectedReese84Paths' = TrackPath(detectedReese84Paths, scriptPath)
               /\ scriptPathToScriptUrl' = MapSet(scriptPathToScriptUrl, scriptPath, iResp[i].url)
               /\ scriptPathToScriptContent' =
                     MapSet(scriptPathToScriptContent, scriptPath, iResp[i].content)
               /\ iScriptCapture' = [iScriptCapture EXCEPT
                     !.detectedScripts = MapSet(@, scriptPath, iResp[i].url)]
       ELSE UNCHANGED <<detectedReese84Paths, scriptPathToScriptUrl, scriptPathToScriptContent,
                        iScriptCapture>>
    /\ UNCHANGED iOthers
    /\ UNCHANGED <<scriptPathToSitekey, iUserAgent, iReq, iDone, iCount>>

\* The call of generateReese84Sensor by the route callback r of the dynamic variant.
DynamicCallOracle(r) ==
    [r EXCEPT !.pc = "awaitOracle",
              !.input = [IncapsulaNoInput EXCEPT
                   !.scriptUrl = MapGetOrEmpty(scriptPathToScriptUrl, r.path, <<>>),
                   !.content = MapGetOrEmpty(scriptPathToScriptContent, r.path, "")]]

\* The route callback of the dynamic variant for a request the pattern matches,
\* and handleIncapsulaRequest up to its first await.
DynamicRoute(req) ==
    /\ scheme = "incapsulaDynamic"
    /\ iCount < IncapsulaMaxEvents
    /\ incapsulaRoutePattern(req.url)
    /\ iCount' = iCount + 1
    /\ LET matching == findMatchingDetectedPath(detectedReese84Paths, req.url)
           r == [url |-> req.url, method |-> req.method, ct |-> req.ct, body |-> req.body,
                 path |-> matching, mapAt |-> <<>>, pc |-> "awaitUA",
                 input |-> IncapsulaNoInput]
       IN IF matching # NoPath /\ matching # <<>>
             /\ shouldInterceptIncapsulaRequest(req.url, req.method, matching)
          THEN IF IsRefreshBody(req.body)
               THEN /\ iDone' = IncapsulaFinish(r, "continued", "none")
                    /\ UNCHANGED <<iReq, iScriptCapture>>
               ELSE /\ iScriptCapture' = [iScriptCapture EXCEPT
                          !.interceptedPaths = TrackPath(@, matching)]
                    /\ iReq' = Append(iReq, IF iUserAgent = "" THEN r ELSE DynamicCallOracle(r))
                    /\ UNCHANGED iDone
          ELSE /\ iDone' = IncapsulaFinish(r, "continued", "none")
               /\ UNCHANGED <<iReq, iScriptCapture>>
    /\ UNCHANGED iOthers
    /\ UNCHANGED <<scriptPathToSitekey, detectedReese84Paths, scriptPathToScriptUrl,
                   scriptPathToScriptContent, iUserAgent, iResp>>

\* page.evaluate(() => navigator.userAgent) returns in the dynamic variant.
DynamicAfterUA(i) ==
    /\ scheme = "incapsulaDynamic"
    /\ i \in 1..Len(iReq)
    /\ iReq[i].pc = "awaitUA"
    /\ iUserAgent' = "UA"
    /\ iReq' = [iReq EXCEPT ![i] = DynamicCallOracle(iReq[i])]
    /\ UNCHANGED iOthers
    /\ UNCHANGED <<scriptPathToSitekey, detectedReese84Paths, scriptPathToScriptUrl,
                   scriptPathToScriptContent, iScriptCapture, iResp, iDone, iCount>>

\* reset() of the dynamic variant
DynamicReset ==
    /\ scheme = "incapsulaDynamic"
    /\ iCount < IncapsulaMaxEvents
    /\ iCount' = iCount + 1
    /\ iScriptCapture' = IncapsulaEmptyCapture
    /\ scriptPathToScriptUrl' = <<>>
    /\ scriptPathToScriptContent' = <<>>
    /\ detectedReese84Paths' = <<>>
    /\ iSnapshot' = SnapshotDetached
    /\ UNCHANGED iControllers
    /\ UNCHANGED <<scriptPathToSitekey, iUserAgent, iResp, iReq, iDone>>

NextIncapsulaDynamic ==
    \/ \E r \in DynamicResponses : DynamicResponse(r)
    \/ \E i \in 1..MaxEvents, ok \in BOOLEAN : DynamicDetected(i, ok)
    \/ \E q \in DynamicRequests : DynamicRoute(q)
    \/ \E i \in 1..MaxEvents : DynamicAfterUA(i)
    \/ \E i \in 1..MaxEvents, ok \in BOOLEAN : IncapsulaOracle(i, ok)
    \/ DynamicReset

\* Both variants, one of them installed.
NextIncapsula == NextIncapsulaStatic \/ NextIncapsulaDynamic

(***************************************************************************)
(*                              getStatus()                                *)
(*                                                                         *)
(* What getStatus() of each controller returns in the current state.       *)
(***************************************************************************)
\* KasadaHandler.getStatus: { ...this.scriptCapture }
KasadaStatus == kScriptCapture

\* AkamaiHandler.getStatus
AkamaiStatus ==
    [scriptCapture |-> aScriptCapture, sessionContext |-> sessionContext, sbsdIndex |-> sbsdIndex]

\* DataDomeHandler.getStatus
DataDomeStatus == [captchaCapture |-> captchaCapture, isProcessing |-> isProcessing]

(***************************************************************************)
(*                           SPECIFICATIONS                                *)
(*                                                                         *)
(* One controller is installed on the page in a run; the others stay as    *)
(* constructed.                                                            *)
(***************************************************************************)
KasadaIdle == KasadaConstructed("")
AkamaiIdle == AkamaiConstructed("", {})
DataDomeIdle == DataDomeConstructed("")
IncapsulaIdle == IncapsulaConstructed("", <<>>)
FindIdle == fKeys = <<>> /\ fUrl = [path |-> <<>>, query |-> <<>>] /\ fRes = FindUnset

InitKasada ==
    /\ scheme = "kasada"
    /\ \E ua \in {"", "UA"} : KasadaConstructed(ua)
    /\ AkamaiIdle /\ DataDomeIdle /\ IncapsulaIdle /\ FindIdle

SpecKasada == InitKasada /\ [][NextKasada]_vars

InitAkamaiSensor ==
    /\ scheme = "akamai"
    /\ \E ua \in {"", "UA"}, c \in {{"_abck", "bm_sz"}, {"_abck"}} : AkamaiConstructed(ua, c)
    /\ KasadaIdle /\ DataDomeIdle /\ IncapsulaIdle /\ FindIdle

SpecAkamaiSensor == InitAkamaiSensor /\ [][NextAkamaiSensor]_vars

InitAkamaiSbsd ==
    /\ scheme = "akamai"
    /\ \E ua \in {"", "UA"}, c \in {{"bm_so"}, {"sbsd_o"}, {}} : AkamaiConstructed(ua, c)
    /\ KasadaIdle /\ DataDomeIdle /\ IncapsulaIdle /\ FindIdle

SpecAkamaiSbsd == InitAkamaiSbsd /\ [][NextAkamaiSbsd]_vars

InitDataDome ==
    /\ scheme = "datadome"
    /\ \E ua \in {"", "UA"} : DataDomeConstructed(ua)
    /\ KasadaIdle /\ AkamaiIdle /\ IncapsulaIdle /\ FindIdle

SpecDataDome == InitDataDome /\ [][NextDataDome]_vars

\* One challenge: the puzzle image, the piece image and the captcha page are
\* delivered in any order, one of them possibly again once all three have been,
\* and every awaited call returns (the body reads, the lookup of the captcha
\* page and frame, the oracle). A response is known to be delivered by the URL
\* slot its handler writes first.
ChallengeResponses ==
    { r \in DataDomeResponses : r.ok /\ r.kind \in {"puzzle", "piece", "captcha"} /\ Truthy(r.body) }

ChallengeDelivered(r) ==
    CASE r.kind = "puzzle" -> captchaCapture.puzzleImageUrl # NULL
      [] r.kind = "piece" -> captchaCapture.pieceImageUrl # NULL
      [] r.kind = "captcha" -> captchaCapture.captchaPageUrl # NULL

ChallengeResponse(r) ==
    /\ ChallengeDelivered(r) => \A q \in ChallengeResponses : ChallengeDelivered(q)
    /\ DataDomeResponse(r)

InitDataDomeChallenge ==
    /\ scheme = "datadome"
    /\ DataDomeConstructed("")
    /\ KasadaIdle /\ AkamaiIdle /\ IncapsulaIdle /\ FindIdle

NextDataDomeChallenge ==
    \/ \E r \in ChallengeResponses : ChallengeResponse(r)
    \/ \E i \in 1..MaxEvents : DataDomeImageBody(i)
    \/ \E i \in 1..MaxEvents : DataDomeCaptchaAfterGate(i)
    \/ \E i \in 1..MaxEvents : DataDomeCaptchaAfterFind(i, TRUE)
    \/ \E i \in 1..MaxEvents : DataDomeCaptchaAfterUA(i, TRUE)
    \/ \E i \in 1..MaxEvents : DataDomeCaptchaAfterParent(i)
    \/ \E i \in 1..MaxEvents : DataDomeCaptchaAfterText(i)
    \/ \E i \in 1..MaxEvents : DataDomeCaptchaOracleOk(i)
    \/ \E i \in 1..MaxEvents : DataDomeCaptchaExecuted(i)

\* Every response of the challenge arrives, and a promise that can settle does.
SpecDataDomeChallenge ==
    /\ InitDataDomeChallenge
    /\ [][NextDataDomeChallenge]_vars
    /\ \A r \in ChallengeResponses : WF_vars(ChallengeResponse(r))
    /\ WF_vars(\E i \in 1..MaxEvents : DataDomeImageBody(i))
    /\ WF_vars(\E i \in 1..MaxEvents : DataDomeCaptchaAfterGate(i))
    /\ WF_vars(\E i \in 1..MaxEvents : DataDomeCaptchaAfterFind(i, TRUE))
    /\ WF_vars(\E i \in 1..MaxEvents : DataDomeCaptchaAfterUA(i, TRUE))
    /\ WF_vars(\E i \in 1..MaxEvents : DataDomeCaptchaAfterParent(i))
    /\ WF_vars(\E i \in 1..MaxEvents : DataDomeCaptchaAfterText(i))
    /\ WF_vars(\E i \in 1..MaxEvents : DataDomeCaptchaOracleOk(i))
    /\ WF_vars(\E i \in 1..MaxEvents : DataDomeCaptchaExecuted(i))

InitIncapsulaStatic ==
    /\ scheme = "incapsulaStatic"
    /\ \E ua \in {"", "UA"}, map \in StaticMaps : IncapsulaConstructed(ua, map)
    /\ KasadaIdle /\ AkamaiIdle /\ DataDomeIdle /\ FindIdle

SpecIncapsulaStatic == InitIncapsulaStatic /\ [][NextIncapsulaStatic]_vars

InitIncapsulaDynamic ==
    /\ scheme = "incapsulaDynamic"
    /\ \E ua \in {"", "UA"} : IncapsulaConstructed(ua, <<>>)
    /\ KasadaIdle /\ AkamaiIdle /\ DataDomeIdle /\ FindIdle

SpecIncapsulaDynamic == InitIncapsulaDynamic /\ [][NextIncapsulaDynamic]_vars

InitIncapsula == InitIncapsulaStatic \/ InitIncapsulaDynamic

SpecIncapsula == InitIncapsula /\ [][NextIncapsula]_vars

\* Either variant, constructed without a user agent: the utmvc route is the same
\* in both.
InitUtmvc ==
    /\ IsIncapsula
    /\ IncapsulaConstructed("", <<>>)
    /\ KasadaIdle /\ AkamaiIdle /\ DataDomeIdle /\ FindIdle

SpecUtmvc == InitUtmvc /\ [][NextUtmvc]_vars

\* findMatchingScriptPath on every registry and URL of the bounded sets.
InitFind ==
    /\ scheme = "find"
    /\ fKeys \in FindRegistries
    /\ fUrl \in [path : FindPaths, query : FindQueries]
    /\ fRes = FindUnset
    /\ KasadaIdle /\ AkamaiIdle /\ DataDomeIdle /\ IncapsulaIdle

SpecFind == InitFind /\ [][NextFind]_vars

\* The three controllers that hold requests behind a gate, one of them installed.
InitGates == InitKasada \/ InitAkamaiSensor \/ InitDataDome

NextGates == NextKasada \/ NextAkamaiSensor \/ NextDataDome

SpecGates == InitGates /\ [][NextGates]_vars

\* The two controllers whose route callbacks await a promise.  A continuation of
\* a resolved promise is a microtask the event loop runs: it is not postponed for ever.
InitWaiters == InitKasada \/ InitAkamaiSensor

NextWaiters == NextKasada \/ NextAkamaiSensor

SpecWaiters ==
    /\ InitWaiters
    /\ [][NextWaiters]_vars
    /\ WF_vars(\E i \in 1..MaxEvents : KasadaTlAfterGate(i))
    /\ WF_vars(\E i \in 1..MaxEvents : AkamaiSensorAfterGate(i))

\* The Incapsula handlers with a caller that keeps what getStatus() returned.
NextIncapsulaStatus ==
    \/ NextIncapsulaStatic
    \/ NextIncapsulaDynamic
    \/ StaticGetStatus
    \/ DynamicGetStatus

SpecIncapsulaStatus == InitIncapsula /\ [][NextIncapsulaStatus]_vars

\* Every controller, one of them installed: constructed without a user agent, on
\* a page that has the cookies of its script.
InitControllers ==
    \/ /\ scheme = "kasada"
       /\ KasadaConstructed("")
       /\ AkamaiIdle /\ DataDomeIdle /\ IncapsulaIdle /\ FindIdle
    \/ /\ scheme = "akamai"
       /\ \E c \in {{"_abck", "bm_sz"}, {"bm_so"}} : AkamaiConstructed("", c)
       /\ KasadaIdle /\ DataDomeIdle /\ IncapsulaIdle /\ FindIdle
    \/ /\ scheme = "datadome"
       /\ DataDomeConstructed("")
       /\ KasadaIdle /\ AkamaiIdle /\ IncapsulaIdle /\ FindIdle
    \/ /\ scheme = "incapsulaStatic"
       /\ IncapsulaConstructed("", <<[path |-> PathA, val |-> "sk1"]>>)
       /\ KasadaIdle /\ AkamaiIdle /\ DataDomeIdle /\ FindIdle
    \/ /\ scheme = "incapsulaDynamic"
       /\ IncapsulaConstructed("", <<>>)
       /\ KasadaIdle /\ AkamaiIdle /\ DataDomeIdle /\ FindIdle

\* A page loads one of the two Akamai scripts, and its cookies are those of that
\* script: the traffic of a run is the sensor traffic or the SBSD traffic.
AkamaiResponsesOfPage == IF "_abck" \in aCookies THEN SensorResponses ELSE SbsdResponses

AkamaiRequestsOfPage == IF "_abck" \in aCookies THEN SensorRequests ELSE SbsdRequests

NextAkamaiOfPage ==
    \/ \E r \in AkamaiResponsesOfPage : AkamaiResponse(r)
    \/ \E i \in 1..MaxEvents : AkamaiSensorParsed(i)
    \/ \E i \in 1..MaxEvents : AkamaiSbsdBodyRead(i)
    \/ \E i \in 1..MaxEvents : AkamaiResponseFail(i)
    \/ \E q \in AkamaiRequestsOfPage : AkamaiRoute(q)
    \/ \E i \in 1..MaxEvents : AkamaiSensorAfterGate(i)
    \/ \E i \in 1..MaxEvents : AkamaiSensorAfterCookies(i)
    \/ \E i \in 1..MaxEvents : AkamaiSbsdAfterCookies(i)
    \/ \E i \in 1..MaxEvents : AkamaiAfterUA(i)
    \/ \E i \in 1..MaxEvents : AkamaiSensorOracleOk(i)
    \/ \E i \in 1..MaxEvents : AkamaiSbsdOracleOk(i)
    \/ \E i \in 1..MaxEvents : AkamaiOracleFail(i)
    \/ AkamaiReset

NextControllers ==
    \/ NextKasada
    \/ NextAkamaiOfPage
    \/ NextDataDome
    \/ NextIncapsulaStatic
    \/ NextIncapsulaDynamic

SpecControllers == InitControllers /\ [][NextControllers]_vars

\* The Kasada controller with TL requests of any headers and oracle answers of
\* any header set, answered after ips.js was captured or before.
NextKasadaHeaders ==
    \/ \E r \in KasadaResponses : KasadaResponse(r)
    \/ \E i \in 1..MaxEvents : KasadaBodyRead(i)
    \/ \E i \in 1..MaxEvents : KasadaBodyFail(i)
    \/ \E m \in Methods : KasadaTlRoute(m)
    \/ \E i \in 1..MaxEvents : KasadaTlAfterGate(i)
    \/ \E i \in 1..MaxEvents : KasadaTlAfterUA(i)
    \/ \E i \in 1..MaxEvents, o \in TlHeaders, h \in KasadaResultHeaders : KasadaTlMutate(i, o, h)
    \/ \E i \in 1..MaxEvents : KasadaTlOracleFail(i)
    \/ KasadaReset

SpecKasadaHeaders == InitKasada /\ [][NextKasadaHeaders]_vars

\* The Kasada and the Akamai controller with the traffic of their fixed endpoints
\* (error reporting, pixel) among the traffic of their scripts.
PixelRequests == { [url |-> PixelUrl, method |-> m] : m \in Methods }

InitFixedEndpoints ==
    \/ /\ scheme = "kasada"
       /\ KasadaConstructed("")
       /\ AkamaiIdle /\ DataDomeIdle /\ IncapsulaIdle /\ FindIdle
    \/ /\ scheme = "akamai"
       /\ \E c \in {{"_abck", "bm_sz"}, {"bm_so"}} : AkamaiConstructed("", c)
       /\ KasadaIdle /\ DataDomeIdle /\ IncapsulaIdle /\ FindIdle

NextFixedEndpoints ==
    \/ NextKasada
    \/ NextAkamaiOfPage
    \/ \E m \in Methods : KasadaErrorRoute(m)
    \/ \E q \in PixelRequests : AkamaiPixelRoute(q)

SpecFixedEndpoints == InitFixedEndpoints /\ [][NextFixedEndpoints]_vars

(***************************************************************************)
(* Claims about the Kasada controller.                                     *)
(***************************************************************************)
\* The TL POSTs of the current epoch that were intercepted after its gate was
\* satisfied and whose handling has run to the end without an oracle rejection.
KasadaLaterPostDone ==
    /\ kDone.outcome \in {"continued", "mutated"}
    /\ kDone.method = "POST"
    /\ kDone.gate = ipsScriptPromise
    /\ kDone.preSat
    /\ kDone.oracle # "failed"

KasadaLaterPostsUseBody ==
    /\ KasadaLaterPostDone =>
          /\ kDone.outcome = "mutated"
          /\ kDone.input.ipsResponseText = kObs[ipsScriptPromise][1]
    /\ \A i \in 1..Len(kReq) :
          (kReq[i].gate = ipsScriptPromise /\ kReq[i].preSat /\ kReq[i].pc = "awaitOracle")
             => kReq[i].input.ipsResponseText = kObs[ipsScriptPromise][1]

\* C1: a TL POST is forwarded with replaced body/headers only if an ips.js
\* observation was completed (body stored, gate satisfied) in the epoch in which
\* the POST was intercepted.
C1_NoMutationBeforeIps ==
    kDone.outcome = "mutated" => Len(kObs[kDone.gate]) >= 1

C1_Witness ==
    /\ kDone.outcome = "mutated"
    /\ ~kDone.preSat
    /\ kDone.gate >= 1

C4_SecondSatisfyIsNoOp ==
    [][\A i \in 1..Len(kResp) :
          KasadaBodyRead(i) =>
             /\ ipsScriptPromise \in kResolved'
             /\ kScriptCapture'.ipsResponseText = kResp[i].body
             /\ (ipsScriptPromise \in kResolved =>
                    (kResolved' = kResolved /\ kReq' = kReq /\ kDone' = kDone))]_vars

C4_Witness ==
    /\ Len(kObs[ipsScriptPromise]) = 2
    /\ kObs[ipsScriptPromise][1] = "X"
    /\ kScriptCapture.ipsResponseText = "Y"
    /\ \E i \in 1..Len(kReq) : kReq[i].pc = "awaitOracle" /\ kReq[i].input.ipsResponseText = "X"

(***************************************************************************)
(* Claims about the gates.                                                 *)
(***************************************************************************)
\* A route callback suspended at the await of a promise that is resolved.
KasadaReadyWaiter(i) == kReq[i].pc = "awaitGate" /\ kReq[i].gate \in kResolved
AkamaiReadyWaiter(i) == aReq[i].pc = "awaitGate" /\ aReq[i].gate \in aResolved

ReadyWaiter ==
    \/ \E i \in 1..Len(kReq) : KasadaReadyWaiter(i)
    \/ \E i \in 1..Len(aReq) : AkamaiReadyWaiter(i)

\* No callback is past its await unless the promise it awaited is resolved, and a
\* callback whose promise is resolved can continue as things are.
GateReleaseSafe ==
    /\ \A i \in 1..Len(kReq) :
          /\ kReq[i].pc # "awaitGate" => kReq[i].gate \in kResolved
          /\ KasadaReadyWaiter(i) => ENABLED KasadaTlAfterGate(i)
    /\ (kDone.outcome # "none" /\ kDone.method = "POST") => kDone.gate \in kResolved
    /\ \A i \in 1..Len(aReq) :
          /\ (aReq[i].kind = "sensor" /\ aReq[i].pc # "awaitGate") => aReq[i].gate \in aResolved
          /\ AkamaiReadyWaiter(i) => ENABLED AkamaiSensorAfterGate(i)
    /\ (aDone.outcome # "none" /\ aDone.kind = "sensor") => aDone.gate \in aResolved

\* C3: a request that starts waiting on a gate before it is satisfied is released
\* once it is satisfied, a request that starts waiting after it was satisfied goes
\* on without a further observation, and no waiter is released before the
\* satisfaction (Kasada TL POSTs, Akamai sensor POSTs).
C3_GateWaitSatisfy == []GateReleaseSafe /\ (ReadyWaiter ~> ~ReadyWaiter)

\* A Kasada TL POST that was intercepted before the observation has been released
\* and mutated, with a single observation in its epoch.
C3_Witness ==
    /\ kDone.outcome = "mutated" /\ ~kDone.preSat
    /\ Len(kObs[kDone.gate]) = 1
    /\ \E i \in 1..Len(kReq) : kReq[i].preSat /\ kReq[i].pc # "awaitGate"
                               /\ kReq[i].gate = kDone.gate

\* One step of a controller: a promise becomes resolved only while it is the
\* current one and only by a completed observation, and every gated callback that
\* was intercepted after a reset and is past its await has its own promise resolved.
ResetGateStep ==
    /\ \A p \in kResolved' \ kResolved :
          p = ipsScriptPromise /\ \E i \in 1..Len(kResp) : KasadaBodyRead(i)
    /\ \A p \in aResolved' \ aResolved :
          p = dynamicValuesPromise /\ \E i \in 1..Len(aResp) : AkamaiSensorParsed(i)
    /\ \A p \in dResolved' \ dResolved :
          p = imagesPromise /\ \E i \in 1..Len(dResp) : DataDomeImageBody(i)
    /\ \A i \in 1..Len(kReq') :
          (kReq'[i].gate >= 1 /\ kReq'[i].pc # "awaitGate") => kReq'[i].gate \in kResolved'
    /\ (kDone'.outcome # "none" /\ kDone'.method = "POST" /\ kDone'.gate >= 1)
          => kDone'.gate \in kResolved'
    /\ \A i \in 1..Len(aReq') :
          (aReq'[i].kind = "sensor" /\ aReq'[i].gate >= 1 /\ aReq'[i].pc # "awaitGate")
             => aReq'[i].gate \in aResolved'
    /\ (aDone'.outcome # "none" /\ aDone'.kind = "sensor" /\ aDone'.gate >= 1)
          => aDone'.gate \in aResolved'
    /\ \A i \in 1..Len(dResp') :
          (dResp'[i].r.kind = "captcha" /\ dResp'[i].gate >= 1 /\ dResp'[i].pc # "awaitGate")
             => dResp'[i].gate \in dResolved'
    /\ (dDone'.outcome # "none" /\ dDone'.kind = "captcha" /\ dDone'.gate >= 1)
          => dDone'.gate \in dResolved'

\* C5: the gate installed by reset() is never pre-satisfied: a Kasada TL POST, an
\* Akamai sensor POST or a DataDome captcha page intercepted after a reset is held
\* until an observation satisfies the gate after that reset, whatever was
\* satisfied before it.
C5_ResetGateNotPreSatisfied == [][ResetGateStep]_vars

\* A DataDome captcha page handled after a reset is held at the new gate although
\* the gate before the reset was satisfied.
C5_Witness ==
    \E i \in 1..Len(dResp) :
        /\ dResp[i].r.kind = "captcha" /\ dResp[i].pc = "awaitGate" /\ dResp[i].gate = 1
        /\ imagesPromise = 1 /\ 0 \in dResolved /\ 1 \notin dResolved

C7_RefreshLeavesCounter ==
    [][\A i \in 1..Len(aReq) :
          (AkamaiSbsdOracleOk(i) /\ HasParam(aReq[i].url, "t"))
             => (aReq[i].input.index = 0 /\ sbsdIndex' = sbsdIndex)]_vars

(***************************************************************************)
(* Claims about the Incapsula handlers.                                    *)
(***************************************************************************)
\* The route callback i of the static variant is about to read the content type
\* of a POST to a mapped path with a query parameter d, and it is JSON.
StaticJsonPost(i) ==
    /\ iReq[i].pc = "awaitHeader" /\ iReq[i].method = "POST"
    /\ iReq[i].ct = "application/json"
    /\ SearchParamsGet(SearchOf(iReq[i].url), <<"d">>).found

\* The same, the parameter d not empty and the path mapped to a non-empty sitekey
\* at that moment.
StaticJsonPostWithSitekey(i) ==
    /\ StaticJsonPost(i)
    /\ SearchParamsGet(SearchOf(iReq[i].url), <<"d">>).value # <<>>
    /\ MapHas(scriptPathToSitekey, iReq[i].path)
    /\ Truthy(MapGet(scriptPathToSitekey, iReq[i].path))

\* One step of the static variant: a JSON POST (one of the callbacks in cases) goes
\* on to the oracle and is forwarded with the oracle's result once the oracle
\* returns it; a text/plain POST is forwarded as it is and never reaches the oracle.
StaticContentTypeStep(cases) ==
    /\ \A i \in 1..Len(iReq) :
          /\ (StaticAfterHeader(i) /\ i \in cases) =>
                /\ Len(iReq') = Len(iReq)
                /\ iReq'[i].pc \in {"awaitUA", "awaitOracle"}
          /\ (StaticAfterHeader(i) /\ iReq[i].ct = "text/plain") =>
                /\ iDone' = IncapsulaFinish(iReq[i], "continued", "none")
                /\ Len(iReq') = Len(iReq) - 1
          /\ IncapsulaOracle(i, TRUE) =>
                /\ iDone'.outcome = "mutated"
                /\ iDone'.ct = "application/json"
    /\ \A i \in 1..Len(iReq') :
          iReq'[i].pc \in {"awaitUA", "awaitOracle"} => iReq'[i].ct = "application/json"

C9_QuotedBodyUnmodified ==
    /\ \A i \in 1..Len(iReq) :
          (iReq[i].method = "POST" /\ IsRefreshBody(iReq[i].body))
             => iReq[i].pc \notin {"awaitUA", "awaitOracle"}
    /\ (iDone.outcome # "none" /\ iDone.method = "POST" /\ IsRefreshBody(iDone.body))
          => (iDone.outcome = "continued" /\ iDone.oracle = "none")

(***************************************************************************)
(* Claims about findMatchingScriptPath.                                    *)
(***************************************************************************)
\* The path is the prefix followed by something.
IsPrefixOf(prefix, path) ==
    \E n \in 0..Len(path) : prefix \o SubSeq(path, n + 1, Len(path)) = path

\* The places in the registry of the prefixes of the URL's path.
FindMatches == {k \in 1..Len(fKeys) : IsPrefixOf(fKeys[k], fUrl.path)}

\* C10: findMatchingScriptPath returns a prefix only if the path of the URL (the
\* query ignored) starts with it, null only if no registered prefix is a prefix of
\* the path, and of several matching prefixes the one inserted first.
C10_FirstInsertedPrefix ==
    fRes.variant # "none" =>
       /\ fRes.value # NoPath => \E k \in FindMatches : fKeys[k] = fRes.value
       /\ fRes.value = NoPath => FindMatches = {}
       /\ FindMatches # {} =>
             fRes.value = fKeys[CHOOSE k \in FindMatches : \A j \in FindMatches : k <= j]

\* Two registered prefixes match and the one inserted first, not the longer one,
\* was returned, for a URL whose query holds a prefix as well.
C10_Witness ==
    /\ fRes.variant = "static"
    /\ fKeys = <<PathA, PathAB>>
    /\ fUrl = [path |-> PathAB, query |-> QueryOtherD]
    /\ fRes.value = PathA

(***************************************************************************)
(* C11: the sitekey and the forwarded body of a mutated Incapsula POST     *)
(***************************************************************************)
\* C11: in the static variant, a mutated POST had the oracle called with the
\* sitekey that scriptPathToSitekey bound to the matched script path when the
\* handler looked it up, and went out with exactly the oracle's result as body.
C11_SitekeyAndLiteralBody ==
    (scheme = "incapsulaStatic" /\ iDone.outcome = "mutated") =>
        /\ MapHas(iDone.mapAt, iDone.path)
        /\ iDone.input.sitekey = MapGet(iDone.mapAt, iDone.path)
        /\ iDone.result \in IncapsulaResults
        /\ iDone.sent = iDone.result

\* A POST under /a/b was mutated with the sitekey of /a/b, not the one of /a.
C11_Witness ==
    /\ scheme = "incapsulaStatic"
    /\ iDone.outcome = "mutated"
    /\ iDone.path = PathAB
    /\ Len(iDone.mapAt) = 2
    /\ iDone.input.sitekey = "sk2"
    /\ iDone.sent = <<"r", "2">>

(***************************************************************************)
(* C12: reset() twice in a row                                             *)
(***************************************************************************)
\* No handler of the installed controller is in flight.
KasadaQuiet == kResp = <<>> /\ kReq = <<>>
AkamaiQuiet == aResp = <<>> /\ aReq = <<>>
DataDomeQuiet == dResp = <<>> /\ dReq = <<>>
IncapsulaQuiet == iResp = <<>> /\ iReq = <<>>

\* The status with every capture slot empty, the counters at zero and what was
\* configured (the sitekey map of the static Incapsula variant) as it is.
AkamaiEmptyStatus == [scriptCapture |-> AkamaiEmptyCapture, sessionContext |-> 0, sbsdIndex |-> 0]
DataDomeEmptyStatus == [captchaCapture |-> DataDomeEmptyCapture, isProcessing |-> FALSE]
StaticEmptyStatus ==
    [interceptedPaths |-> <<>>, activeSitekeys |-> <<>>,
     scriptPathMappings |-> scriptPathToSitekey, scriptUrls |-> <<>>]
DynamicEmptyStatus == [interceptedPaths |-> <<>>, detectedScripts |-> <<>>, scriptUrls |-> <<>>]

\* A reset() with no handler in flight leaves the empty status and an unsatisfied
\* gate; called in a state that a reset() left, it leaves the status it found.
ResetStep ==
    /\ (KasadaReset /\ KasadaQuiet) =>
          /\ KasadaStatus' = KasadaEmptyCapture
          /\ ipsScriptPromise' \notin kResolved'
          /\ (KasadaStatus = KasadaEmptyCapture => KasadaStatus' = KasadaStatus)
    /\ (AkamaiReset /\ AkamaiQuiet) =>
          /\ AkamaiStatus' = AkamaiEmptyStatus
          /\ dynamicValuesPromise' \notin aResolved'
          /\ (AkamaiStatus = AkamaiEmptyStatus => AkamaiStatus' = AkamaiStatus)
    /\ (DataDomeReset /\ DataDomeQuiet) =>
          /\ DataDomeStatus' = DataDomeEmptyStatus
          /\ imagesPromise' \notin dResolved'
          /\ (DataDomeStatus = DataDomeEmptyStatus => DataDomeStatus' = DataDomeStatus)
    /\ (StaticReset /\ IncapsulaQuiet) =>
          /\ StaticStatus' = StaticEmptyStatus
          /\ (StaticStatus = StaticEmptyStatus => StaticStatus' = StaticStatus)
    /\ (DynamicReset /\ IncapsulaQuiet) =>
          /\ DynamicStatus' = DynamicEmptyStatus
          /\ (DynamicStatus = DynamicEmptyStatus => DynamicStatus' = DynamicStatus)

\* C12: for every controller, reset() called with no handler in flight leaves
\* every capture slot empty or null, the counters at zero and an unsatisfied
\* gate, and a second reset() right after it leaves getStatus() as the first did.
C12_ResetIdempotent == [][ResetStep]_vars

\* Two reset() calls in a row, after an SBSD POST was mutated (sbsdIndex was 1).
C12_Witness ==
    /\ scheme = "akamai"
    /\ aDone.outcome = "mutated"
    /\ aDone.kind = "sbsd"
    /\ aCount = 4
    /\ dynamicValuesPromise = 2
    /\ AkamaiQuiet
    /\ AkamaiStatus = AkamaiEmptyStatus

(***************************************************************************)
(* C13: a missing prerequisite                                             *)
(***************************************************************************)
\* C13 for the DataDome interstitial POST: no oracle call is made for a POST to the
\* interstitial endpoint while the interstitial page URL or text is not captured.
C13_NoOracleWithoutInterstitialPage ==
    scheme = "datadome" =>
        \A i \in 1..Len(dReq) :
            dReq[i].pc = "awaitOracle" =>
                (dReq[i].input.pageUrl # NULL /\ dReq[i].input.text # NULL)

(***************************************************************************)
(* C14: the oracle call rejects                                            *)
(***************************************************************************)
\* C14 for the Kasada TL route: a route callback whose oracle call rejected ended
\* by throwing to its caller, not by resolving the route itself.
C14_OracleRejectionSurfaced ==
    (scheme = "kasada" /\ kDone.outcome # "none") =>
        (kDone.oracle = "failed" => kDone.outcome = "thrown")

(***************************************************************************)
(* C15: failures degrade to the behaviour without interception             *)
(***************************************************************************)
\* C15 for the DataDome interstitial POST: when the oracle call rejected or gave
\* no result, the request went out as the page issued it.
C15_FailedInterstitialForwarded ==
    (scheme = "datadome" /\ dDone.outcome # "none" /\ dDone.kind = "interstitialPost") =>
        (dDone.oracle # "result" => dDone.outcome = "continued")

(***************************************************************************)
(* C16: getStatus() as a snapshot                                          *)
(***************************************************************************)
\* C16 for the Incapsula handlers: what the holder of an object returned by
\* getStatus() reads in it is the same after every later step.
C16_SnapshotKeepsItsValue == [][iSnapshot.taken => SnapshotView' = SnapshotView]_vars

(***************************************************************************)
(* C17: a POST to the stored SBSD endpoint                                 *)
(***************************************************************************)
\* C17, its first step: a POST to the stored SBSD endpoint (the URL of an observed
\* SBSD script without its `v`), issued while the governing cookie and the stored
\* body and UUID exist, is intercepted by the SBSD route.
C17_StoredEndpointPostIntercepted ==
    [][\A q \in SbsdRequests :
          ( /\ AkamaiRoute(q)
            /\ q.method = "POST"
            /\ q.url = aScriptCapture.sbsdScriptUrl
            /\ ~SbsdMissing(aScriptCapture, aCookies) )
          => (Len(aReq') = Len(aReq) + 1 /\ aReq'[Len(aReq')].kind = "sbsd")]_vars

(***************************************************************************)
(* C18: what a mutated sensor POST was computed from                       *)
(***************************************************************************)
\* C18: a sensor POST that went out with a replaced body awaited a gate that is
\* satisfied, and its payload was computed by the oracle from non-null dynamic
\* values, with both cookies _abck and bm_sz present.
C18_SensorMutationInputs ==
    (scheme = "akamai" /\ aDone.outcome = "mutated" /\ aDone.kind = "sensor") =>
        /\ aDone.gate \in aResolved
        /\ aDone.input.dv # NULL
        /\ {"_abck", "bm_sz"} \subseteq aCookies

(***************************************************************************)
(* C19: the fixed endpoints                                                *)
(***************************************************************************)
\* The error-reporting route callback answered a request of method m as the
\* claim says: a POST fulfilled locally with status 200, any other forwarded as is.
RoutedAsSuppressed(done, m) ==
    /\ done.method = m
    /\ IF m = "POST"
       THEN /\ done.outcome = "fulfilled"
            /\ done.response[1].status = 200
       ELSE /\ done.outcome = "continued"
            /\ done.overrides = {}

SuppressionStep ==
    /\ \A m \in Methods : KasadaErrorRoute(m) => RoutedAsSuppressed(kErrorDone', m)
    /\ \A q \in PixelRequests : AkamaiPixelRoute(q) => RoutedAsSuppressed(aPixelDone', q.method)

\* C19: in every capture state, a POST to the Akamai pixel endpoint or to the
\* Kasada error-reporting endpoint is fulfilled locally with status 200 and not
\* forwarded, and a request of another method to them is forwarded unmodified.
C19_FixedEndpointsSuppressed == [][SuppressionStep]_vars

\* A pixel POST was fulfilled while the dynamic values of a sensor script were
\* captured and a sensor POST was held.
C19_Witness ==
    /\ aPixelDone.outcome = "fulfilled"
    /\ Truthy(aScriptCapture.dynamicValues)
    /\ aReq # <<>>

(***************************************************************************)
(* C20: the headers of a mutated TL request                                *)
(***************************************************************************)
\* The value the oracle returned for the header n (names compared as header
\* names are, without regard to case), NULL when it returned none.
ResultValue(entries, n) ==
    IF \E k \in 1..Len(entries) : toLowerCase(entries[k].name) = n
    THEN entries[CHOOSE k \in 1..Len(entries) : toLowerCase(entries[k].name) = n].value
    ELSE NULL

\* C20: the forwarded TL request has exactly the header names of the original
\* request; a header the oracle also returned has the oracle's value, every
\* other header its original value, and no header of the oracle is added.
C20_HeadersRewritten ==
    (scheme = "kasada" /\ kDone.outcome = "mutated") =>
        /\ DOMAIN kHeaders.sent = DOMAIN kHeaders.original
        /\ \A n \in DOMAIN kHeaders.original :
              kHeaders.sent[n] = IF ResultValue(kHeaders.result, n) # NULL
                                 THEN ResultValue(kHeaders.result, n)
                                 ELSE kHeaders.original[n]

(***************************************************************************)
(* C21: the chain of session context tokens                                *)
(***************************************************************************)
\* C21: of the sensor oracle calls made since the last sensor script was
\* observed, the first received the empty token (0) and each later one the token
\* returned by the call before it (the oracle returns n + 1 for the token n).
C21_ContextChain ==
    scheme = "akamai" =>
        \A k \in 1..Len(aEpochCalls) :
            aEpochCalls[k] = IF k = 1 THEN 0 ELSE aEpochCalls[k - 1] + 1

(***************************************************************************)
(* C22: the images-ready gate                                              *)
(***************************************************************************)
BothImages(cap) == Truthy(cap.puzzleImageBase64) /\ Truthy(cap.pieceImageBase64)

\* A step that satisfies a gate satisfies the gate of the current epoch, and both
\* image slots are non-empty at that moment.
ImagesGateStep ==
    \A p \in dResolved' \ dResolved : p = imagesPromise' /\ BothImages(captchaCapture')

\* C22: the images-ready gate of the current epoch is satisfied only at a moment
\* when the puzzle image slot and the piece image slot are both non-empty; a
\* capture that leaves one of them empty does not satisfy it.
C22_GateNeedsBothImages == [][ImagesGateStep]_vars

\* The gate of the current epoch is satisfied, and an image was captured before
\* while the other slot was still empty.
C22_Witness ==
    /\ scheme = "datadome"
    /\ imagesPromise \in dResolved
    /\ BothImages(captchaCapture)
    /\ dCount >= 2

(***************************************************************************)
(* C23: the non-reentrancy guard                                           *)
(***************************************************************************)
\* The captcha-page handlings in flight: started (guard set) and not yet ended.
CaptchaInFlight == { i \in 1..Len(dResp) : dResp[i].r.kind = "captcha" }

\* C23: at most one captcha-page handling is in flight; a captcha page delivered
\* while another is being handled does not start a second run.
C23_OneCaptchaHandling ==
    scheme = "datadome" => Cardinality(CaptchaInFlight) <= 1

(***************************************************************************)
(* C24: the order of the responses of one challenge                        *)
(***************************************************************************)
\* The captcha-page handlings whose slider oracle call was made.
SliderCalled == { i \in 1..Len(dResp) : dResp[i].pc \in {"awaitOracle", "execute"} }

\* The call was made with both images, and both are captured.
SliderCallHasImages ==
    \A i \in SliderCalled :
        /\ BothImages(captchaCapture)
        /\ dResp[i].input.puzzle = captchaCapture.puzzleImageBase64
        /\ dResp[i].input.piece = captchaCapture.pieceImageBase64

\* C24: whatever the order and interleaving of the puzzle image, the piece image
\* and the captcha page of one challenge, the slider oracle is eventually
\* called, and only after both images are captured, with both as its input.
C24_SliderEventuallyCalledWithImages ==
    /\ [](scheme = "datadome" => SliderCallHasImages)
    /\ <>(scheme = "datadome" /\ dDone.outcome = "solved")

\* The captcha page arrived first: its handling waited at the gate before any
\* image was delivered, and its oracle call has now been made.
C24_Witness ==
    /\ SliderCalled # {}
    /\ \E i \in SliderCalled : ~dResp[i].preSat

(***************************************************************************)
(* C25: the observation of interstitial pages                              *)
(***************************************************************************)
\* The delivery of the interstitial page response r records its URL and starts
\* the handler that will record its body.
InterstitialObserved(r) ==
    /\ captchaCapture'.interstitialPageUrl = r.url
    /\ \E i \in 1..Len(dResp') : dResp'[i].r = r /\ dResp'[i].pc = "interText"

\* C25: every interstitial page response that is delivered has its URL and body
\* recorded in the capture record, whatever other handling is in progress.
C25_InterstitialRecorded ==
    [][\A r \in DataDomeResponses :
          (r.kind = "interstitial" /\ DataDomeResponse(r)) => InterstitialObserved(r)]_vars

(***************************************************************************)
(* C26: the tracked paths of the dynamic variant                           *)
(***************************************************************************)
Tracked(paths, path) == \E k \in 1..Len(paths) : paths[k] = path

\* The tracked set changed by the detection of a reese84 script: a GET response
\* with the imperva header, a javascript content type and `var reese84` in its body.
TrackedByDetection ==
    \E i \in 1..Len(iResp) :
        /\ iResp[i].method = "GET" /\ iResp[i].imperva /\ iResp[i].js /\ iResp[i].reese
        /\ detectedReese84Paths' = Append(detectedReese84Paths, Pathname(iResp[i].url))

\* A step that sends a POST with a replaced body: the path it was matched with
\* is tracked, that is observed since the last reset(), and a prefix of its path.
MutatedUnderTrackedPath ==
    (iDone' # iDone /\ iDone'.outcome = "mutated") =>
        /\ Tracked(detectedReese84Paths, iDone'.path)
        /\ StartsWith(Pathname(iDone'.url), iDone'.path)

\* C26: in the dynamic variant a path enters the tracked set only through a GET
\* response with the imperva header, a javascript content type and a body with
\* `var reese84`; and no POST is mutated unless such a script, whose path is a
\* prefix of the POST's path, was observed since the last reset().
C26_TrackedOnlyByDetection ==
    [][scheme = "incapsulaDynamic" =>
          /\ (detectedReese84Paths' # detectedReese84Paths /\ detectedReese84Paths' # <<>>)
                => TrackedByDetection
          /\ MutatedUnderTrackedPath]_vars

(***************************************************************************)
(* C27: the ledger of intercepted paths                                    *)
(***************************************************************************)
NoDuplicates(paths) == \A j, k \in 1..Len(paths) : paths[j] = paths[k] => j = k

\* The held POST r of the static variant qualifies: a JSON content type and a
\* sitekey for its path.
StaticQualifies(r) ==
    /\ r.ct # NULL /\ IncludesJson(r.ct)
    /\ Truthy(getSitekeyForRequest(scriptPathToSitekey, r.url, r.path))

\* The request q qualifies in the dynamic variant: a POST under a tracked path
\* whose body does not start with a quote.
DynamicQualifies(q) ==
    LET matching == findMatchingDetectedPath(detectedReese84Paths, q.url)
    IN /\ matching # NoPath /\ matching # <<>>
       /\ shouldInterceptIncapsulaRequest(q.url, q.method, matching)
       /\ ~IsRefreshBody(q.body)

\* A qualifying POST whose path is in the ledger already goes on to an oracle
\* call of its own, and the POST is sent with what that call resolves with.
LedgerStep ==
    /\ \A i \in 1..Len(iReq) :
          (StaticAfterHeader(i) /\ StaticQualifies(iReq[i])
             /\ Tracked(iScriptCapture.interceptedPaths, iReq[i].path))
          => (Len(iReq') = Len(iReq) /\ iReq'[i].pc \in {"awaitUA", "awaitOracle"})
    /\ \A q \in DynamicRequests :
          (DynamicRoute(q) /\ DynamicQualifies(q)
             /\ Tracked(iScriptCapture.interceptedPaths,
                        findMatchingDetectedPath(detectedReese84Paths, q.url)))
          => (Len(iReq') = Len(iReq) + 1 /\ iReq'[Len(iReq')].pc \in {"awaitUA", "awaitOracle"})
    /\ \A i \in 1..Len(iReq) :
          IncapsulaOracle(i, TRUE)
          => (iDone'.outcome = "mutated" /\ iDone'.sent \in IncapsulaResults)

\* C27: interceptedPaths never holds a path twice, and a path in the ledger does
\* not suppress mutation: every qualifying POST to it, the first and each later
\* one, is mutated by an oracle call of its own.
C27_LedgerDoesNotSuppress ==
    /\ [](scheme \in {"incapsulaStatic", "incapsulaDynamic"}
            => NoDuplicates(iScriptCapture.interceptedPaths))
    /\ [][LedgerStep]_vars

\* A POST was mutated, and a later POST to the same path, which was in the ledger
\* when it was intercepted, is at an oracle call of its own.
C27_Witness ==
    /\ iDone.outcome = "mutated"
    /\ iScriptCapture.interceptedPaths = <<iDone.path>>
    /\ \E i \in 1..Len(iReq) : iReq[i].path = iDone.path /\ iReq[i].pc = "awaitOracle"

(***************************************************************************)
(* C28: two observations for one capture slot                              *)
(*                                                                         *)
(* One epoch of the Kasada and of the Akamai controller in which every     *)
(* response callback completes: responses are delivered and their bodies   *)
(* are read, in any order; no body read rejects and reset() is not called. *)
(***************************************************************************)
InitObservations == InitKasada \/ InitAkamaiSbsd

NextObservations ==
    \/ \E r \in KasadaResponses : KasadaResponse(r)
    \/ \E i \in 1..MaxEvents : KasadaBodyRead(i)
    \/ \E r \in SbsdResponses : AkamaiResponse(r)
    \/ \E i \in 1..MaxEvents : AkamaiSbsdBodyRead(i)

SpecObservations == InitObservations /\ [][NextObservations]_vars

\* The URL slot is written before the first await of a response callback, so it
\* names the matching response delivered last: the bodies that response may carry.
KasadaLastBodies ==
    { r.body : r \in { q \in KasadaResponses : q.url = kScriptCapture.ipsScriptUrl } }
SbsdLastBodies ==
    { r.body : r \in { q \in SbsdResponses : q.url.v = aScriptCapture.sbsdUuid } }

\* C28: when the matching observations of an epoch were delivered in the order A
\* then B and all their handlers have completed, the body slot holds the body of
\* B, the observation delivered last, whatever the order of the body reads.
C28_LastObservationWins ==
    /\ (scheme = "kasada" /\ kResp = <<>> /\ kScriptCapture.ipsScriptUrl # NULL)
         => kScriptCapture.ipsResponseText \in KasadaLastBodies
    /\ (scheme = "akamai" /\ aResp = <<>> /\ aScriptCapture.sbsdUuid # NULL)
         => aScriptCapture.sbsdResponseText \in SbsdLastBodies

(***************************************************************************)
(* C30: the sitekeys of the static Incapsula variant                       *)
(***************************************************************************)
\* A step of addScriptPathMapping or removeScriptPathMapping
SitekeyConfigured ==
    \/ \E p \in {PathA, PathAB}, k \in {"sk1", "sk3"} : StaticAddMapping(p, k)
    \/ \E p \in {PathA, PathAB} : StaticRemoveMapping(p)

\* A step of the response observer, of a route callback or of reset()
SitekeyBystander ==
    \/ \E r \in StaticResponses : StaticResponse(r)
    \/ \E q \in StaticRequests : StaticRoute(q)
    \/ \E i \in 1..MaxEvents : StaticAfterHeader(i) \/ StaticAfterUA(i)
    \/ \E i \in 1..MaxEvents, ok \in BOOLEAN : IncapsulaOracle(i, ok)
    \/ StaticReset

\* C30: in the static variant the map from script paths to sitekeys is what the
\* constructor received and changes only in addScriptPathMapping and
\* removeScriptPathMapping; a response observed, a request intercepted and
\* reset() leave it as it is.
C30_SitekeysOnlyConfigured ==
    [][/\ scriptPathToSitekey' # scriptPathToSitekey => SitekeyConfigured
       /\ SitekeyBystander => scriptPathToSitekey' = scriptPathToSitekey]_vars

\* A POST was intercepted and mutated, reset() was called after its path was
\* entered in the ledger, a script response was observed after that, and the map
\* is the one given to the constructor.
C30_Witness ==
    /\ scheme = "incapsulaStatic"
    /\ iDone.outcome = "mutated"
    /\ iScriptCapture.interceptedPaths = <<>>
    /\ scriptPathToScriptUrl # <<>>
    /\ scriptPathToSitekey = << [path |-> PathA, val |-> "sk1"] >>

(***************************************************************************)
(* C29: the utmvc cookie is substituted once                               *)
(***************************************************************************)
\* The writes made after the injection, when there was one injection
WritesAfterInjection == SelectSeq(utmvcPage.writes, LAMBDA w : w.injections = 1)

\* passed carries the synthesized value as the value of the utmvc cookie
Carries(passed, utmvcValue) ==
    \E k \in 1..(Len(passed) - 1) : passed[k] = UtmvcName /\ passed[k + 1] = utmvcValue

\* C29: after one injection, the first write to document.cookie that contains
\* `___utmvc=` reaches the original setter carrying the synthesized value and the
\* original accessor is in place right after it; every other write, before or
\* after it, reaches the original setter as it was written.
C29_UtmvcOneShot ==
    (IsIncapsula /\ utmvcPage.injections = 1) =>
        LET W == WritesAfterInjection
            named == { k \in 1..Len(W) : includes(W[k].value) }
        IN \A f \in named :
              (\A k \in named : f <= k) =>
                  /\ Carries(W[f].passed, utmvcPage.utmvcValue)
                  /\ W[f].original
                  /\ \A k \in 1..Len(W) : k # f => W[k].passed = W[k].value

(***************************************************************************)
(* C31: the SBSD index of a newly stored UUID                              *)
(***************************************************************************)
\* The route callback i of an SBSD POST calls the oracle in this step
SbsdCallStep(i) ==
    /\ i \in 1..Len(aReq) /\ Len(aReq') = Len(aReq)
    /\ aReq[i].kind = "sbsd"
    /\ aReq[i].pc # "awaitOracle" /\ aReq'[i].pc = "awaitOracle"

\* C31: a new SBSD script observation resets the index, so an SBSD oracle call
\* that uses the stored UUID passes an index counted from zero for that UUID:
\* a non-refresh call passes at most the number of SBSD oracle calls made since
\* the UUID was stored, whatever the interleaving of observation and POSTs.
C31_IndexCountedFromZero ==
    [][\A i \in 1..MaxEvents :
          (scheme = "akamai" /\ SbsdCallStep(i) /\ ~HasParam(aReq[i].url, "t"))
             => (/\ aReq'[i].input.uuid = aScriptCapture.sbsdUuid
                 /\ aReq'[i].input.index <= aHist.since)]_vars

(***************************************************************************)
(* C32: a request held on a gate when reset() is called                    *)
(*                                                                         *)
(* The three controllers with a gate, with the continuation of a resolved  *)
(* promise not postponed for ever.                                         *)
(***************************************************************************)
SpecHeld ==
    /\ InitGates
    /\ [][NextGates]_vars
    /\ WF_vars(\E i \in 1..MaxEvents : KasadaTlAfterGate(i))
    /\ WF_vars(\E i \in 1..MaxEvents : AkamaiSensorAfterGate(i))
    /\ WF_vars(\E i \in 1..MaxEvents : DataDomeCaptchaAfterGate(i))

\* A callback is suspended on the unresolved promise of an epoch that a reset()
\* has ended.
HeldOnOldGate ==
    \/ \E i \in 1..Len(kReq) : /\ kReq[i].pc = "awaitGate"
                                /\ kReq[i].gate # ipsScriptPromise /\ kReq[i].gate \notin kResolved
    \/ \E i \in 1..Len(aReq) : /\ aReq[i].pc = "awaitGate"
                                /\ aReq[i].gate # dynamicValuesPromise /\ aReq[i].gate \notin aResolved
    \/ \E i \in 1..Len(dResp) : /\ dResp[i].pc = "awaitGate"
                                 /\ dResp[i].gate # imagesPromise /\ dResp[i].gate \notin dResolved

\* The observation that satisfies the gate has occurred after the last reset()
NewGateSatisfied ==
    \/ scheme = "kasada" /\ ipsScriptPromise \in kResolved
    \/ scheme = "akamai" /\ dynamicValuesPromise \in aResolved
    \/ scheme = "datadome" /\ imagesPromise \in dResolved

\* C32: a request held on a gate when reset() is called is released once the
\* gate-satisfying observation occurs after the reset; it is not held for ever.
C32_HeldReleasedAfterReset == (HeldOnOldGate /\ NewGateSatisfied) ~> ~HeldOnOldGate

(***************************************************************************)
(* C33: the URL and the body of the ips.js script passed to the oracle     *)
(***************************************************************************)
\* The input of a Kasada oracle call pairs the URL and the body of one response
FromOneResponse(input) ==
    \E r \in KasadaResponses :
        r.url = input.ipsScriptUrl /\ r.body = input.ipsResponseText

\* C33: the ips.js URL and the ips.js body passed together to the oracle for a TL
\* POST come from the same observed ips.js response, for every interleaving of
\* ips.js observations with TL POSTs.
C33_UrlAndBodyOfOneResponse ==
    scheme = "kasada" =>
        /\ \A i \in 1..Len(kReq) :
              kReq[i].pc = "awaitOracle" => FromOneResponse(kReq[i].input)
        /\ (kDone.outcome # "none" /\ kDone.oracle # "none") => FromOneResponse(kDone.input)

(***************************************************************************)
(* C34: a second sensor script without reset()                             *)
(***************************************************************************)
\* The route callback i of a sensor POST calls the oracle in this step
SensorCallStep(i) ==
    /\ i \in 1..Len(aReq) /\ Len(aReq') = Len(aReq)
    /\ aReq[i].kind = "sensor"
    /\ aReq[i].pc # "awaitOracle" /\ aReq'[i].pc = "awaitOracle"

\* What parseV3DynamicValues returns for the scripts delivered under url
DynamicValuesOf(url) == { r.dv : r \in { q \in SensorResponses : q.url = url } }

\* C34: once another sensor script has been observed, a sensor POST to the newly
\* captured script URL is held until the dynamic values of that script are
\* parsed: the oracle call of a POST to the stored script URL never gets dynamic
\* values parsed from a script delivered before.
C34_DynamicValuesOfCapturedScript ==
    [][\A i \in 1..MaxEvents :
          (scheme = "akamai" /\ SensorCallStep(i) /\ aReq[i].url = aScriptCapture.scriptUrl)
             => aReq'[i].input.dv \in DynamicValuesOf(aReq[i].url)]_vars

(***************************************************************************)
(* C35: two SBSD POSTs whose handling overlaps                             *)
(***************************************************************************)
\* The callback i of a non-refresh SBSD POST awaits the oracle, which it called
\* with the capture as it still is
SbsdAwaitingOracle(i) ==
    /\ aReq[i].kind = "sbsd" /\ aReq[i].pc = "awaitOracle"
    /\ ~HasParam(aReq[i].url, "t")
    /\ aReq[i].input.uuid = aScriptCapture.sbsdUuid
    /\ aReq[i].input.body = aScriptCapture.sbsdResponseText

\* C35: when a non-refresh SBSD POST calls the oracle while another one is still
\* awaiting the oracle, the two calls pass distinct indices.
C35_OverlappingDistinctIndices ==
    [][\A i, j \in 1..MaxEvents :
          (scheme = "akamai" /\ i # j /\ i \in 1..Len(aReq) /\ SbsdAwaitingOracle(i)
             /\ SbsdCallStep(j) /\ ~HasParam(aReq[j].url, "t"))
          => aReq'[j].input.index # aReq[i].input.index]_vars

(***************************************************************************)
(* C36: every intercepted request is resolved once                         *)
(***************************************************************************)
\* The ways a route callback resolves its route: route.continue() as issued,
\* route.continue(overrides), route.fulfill(response)
RouteResolved == {"continued", "mutated", "fulfilled"}

\* C36: the route callback of every controller that has ended, its awaited calls
\* having returned a result, an empty result or an error, has resolved its
\* request: forwarded or fulfilled locally, not left unresolved.
C36_ResolvedExactlyOnce ==
    /\ kDone.outcome # "none" => kDone.outcome \in RouteResolved
    /\ kErrorDone.outcome # "none" => kErrorDone.outcome \in RouteResolved
    /\ aDone.outcome # "none" => aDone.outcome \in RouteResolved
    /\ aPixelDone.outcome # "none" => aPixelDone.outcome \in RouteResolved
    /\ iDone.outcome # "none" => iDone.outcome \in RouteResolved
    /\ (dDone.outcome # "none" /\ dDone.kind = "interstitialPost")
          => dDone.outcome \in RouteResolved

(***************************************************************************)
(* C37: the processing guard of the DataDome handler is released           *)
(*                                                                         *)
(* The DataDome handler on a page whose awaited calls all return (with a   *)
(* value or an error) and whose resolved promises are continued; which     *)
(* responses the page delivers, and when, is left open.                    *)
(***************************************************************************)
DataDomeContinuation ==
    \/ \E i \in 1..MaxEvents : DataDomeImageBody(i) \/ DataDomeImageFail(i)
    \/ \E i \in 1..MaxEvents, ok \in BOOLEAN : DataDomeInterstitialText(i, ok)
    \/ \E i \in 1..MaxEvents : DataDomeCaptchaAfterGate(i)
    \/ \E i \in 1..MaxEvents, found \in BOOLEAN :
          DataDomeCaptchaAfterFind(i, found) \/ DataDomeCaptchaAfterUA(i, found)
    \/ \E i \in 1..MaxEvents : DataDomeCaptchaAfterParent(i) \/ DataDomeCaptchaAfterText(i)
    \/ \E i \in 1..MaxEvents : DataDomeCaptchaOracleOk(i) \/ DataDomeCaptchaExecuted(i)
    \/ \E i \in 1..MaxEvents : DataDomeCaptchaFail(i)
    \/ \E i \in 1..MaxEvents : DataDomeInterstitialAfterUA(i)
    \/ \E i \in 1..MaxEvents, settled \in InterstitialSettled : DataDomeInterstitialOracle(i, settled)

SpecDataDomeFair ==
    /\ InitDataDome
    /\ [][NextDataDome]_vars
    /\ WF_vars(DataDomeContinuation)

\* C37: whenever isProcessing becomes true it becomes false again, also when the
\* two images of the challenge are never both captured.
C37_GuardReleased == (scheme = "datadome" /\ isProcessing) ~> ~isProcessing

(***************************************************************************)
(* C38: the processing guard across reset()                                *)
(***************************************************************************)
\* The page handlings that run under the guard: captcha pages and interstitial pages
GuardedRuns == { i \in 1..Len(dResp) : dResp[i].r.kind \in {"captcha", "interstitial"} }

\* One step: at most one captcha-page handling runs after it, and a handling that
\* ends in it (its finally block clears the guard) leaves no other one in progress.
GuardStep ==
    /\ Cardinality({ i \in 1..Len(dResp') : dResp'[i].r.kind = "captcha" }) <= 1
    /\ Cardinality({ i \in 1..Len(dResp') : dResp'[i].r.kind \in {"captcha", "interstitial"} })
            < Cardinality(GuardedRuns)
          => { i \in 1..Len(dResp') : dResp'[i].r.kind \in {"captcha", "interstitial"} } = {}

\* C38: calling reset() while a captcha-page handling is in flight never leads to
\* two captcha-page handlings running at the same time, and the guard is never
\* cleared by one run while another run is still in progress.
C38_GuardAcrossReset == [][scheme = "datadome" => GuardStep]_vars

(***************************************************************************)
(* C39: isolation of reset() from the observations in flight               *)
(***************************************************************************)
\* No script response has been delivered since construction or the last reset():
\* the URL slot, written synchronously at delivery, is still empty.
KasadaNothingDelivered == kScriptCapture.ipsScriptUrl = NULL
AkamaiNothingDelivered == aScriptCapture.scriptUrl = NullUrl

\* C39: after reset(), every capture slot stays empty and the new gate stays
\* unsatisfied until a response delivered after the reset is observed; an
\* observation handler that was in flight when reset() was called writes no
\* slot and satisfies no gate afterwards.
C39_ResetIsolatesObservations ==
    /\ (scheme = "kasada" /\ KasadaNothingDelivered)
          => /\ kScriptCapture.ipsResponseText = NULL
             /\ ipsScriptPromise \notin kResolved
    /\ (scheme = "akamai" /\ AkamaiNothingDelivered)
          => /\ aScriptCapture.dynamicValues = NULL
             /\ dynamicValuesPromise \notin aResolved

(***************************************************************************)
(* C40: the Akamai state when the oracle call rejects                      *)
(***************************************************************************)
\* An Akamai handler on a page that loads the sensor script or the SBSD script
InitAkamaiOfPage == InitAkamaiSensor \/ InitAkamaiSbsd

SpecAkamaiOfPage == InitAkamaiOfPage /\ [][NextAkamaiOfPage]_vars

\* A step in which a route handler ends because its oracle call rejected
OracleRejectedStep ==
    /\ scheme = "akamai"
    /\ Len(aReq') < Len(aReq)
    /\ aDone'.outcome # "none" /\ aDone'.oracle = "failed"

\* C40 as stated: if the oracle call rejects while a sensor POST or an SBSD POST
\* is being mutated, the stored session context token and the SBSD index are the
\* same after the handler ends as they were when the request was intercepted.
C40_SameAsAtInterception ==
    [][OracleRejectedStep => /\ sessionContext' = aDone'.atRoute.sessionContext
                             /\ sbsdIndex' = aDone'.atRoute.sbsdIndex]_vars

\* C40, amended: the handler whose oracle call rejects writes neither field; the
\* session context token and the SBSD index are the same after the handler ends
\* as they were just before the rejection.
C40_RejectionWritesNothing ==
    [][OracleRejectedStep => /\ sessionContext' = sessionContext
                             /\ sbsdIndex' = sbsdIndex]_vars

\* An SBSD POST has ended on a rejected oracle call after an earlier SBSD call
\* succeeded (the index is 1 or more), or a sensor POST has ended so with a
\* context token stored.
C40_Witness ==
    /\ scheme = "akamai"
    /\ aDone.outcome = "continued" /\ aDone.oracle = "failed"
    /\ \/ aDone.kind = "sbsd" /\ sbsdIndex >= 1
       \/ aDone.kind = "sensor" /\ sessionContext >= 1

=============================================================================
